---- MODULE Spec2Model ----
(***************************************************************************)
(* pyFAI full pixel splitting: fullSplit1D and fullSplit2D of              *)
(* src/src/splitPixelFull.pyx, as a state machine over the pixel loop and  *)
(* the final merge loop.                                                   *)
(*                                                                         *)
(* Numbers.  A C double is modelled by an extended rational <<n, d>>:      *)
(*   d > 0            the rational n/d in lowest terms (exact arithmetic,  *)
(*                    no rounding),                                        *)
(*   <<1, 0>>, <<-1, 0>>   +infinity, -infinity,                           *)
(*   <<0, 0>>         NaN,                                                 *)
(* with the IEEE-754 rules for the special values (x/0, 0/0, 0*inf,        *)
(* inf-inf, comparisons with NaN).  Zero carries no sign: every zero       *)
(* divisor of the code is a difference x - x or a fabs(), that is +0.      *)
(*                                                                         *)
(* The machine epsilons of lines 227 and 450 (2^-23 and 2^-52) are far     *)
(* below what the model's integers can carry; the model takes 1/Eps32Inv   *)
(* and 1/Eps64Inv and relies only on 0 < eps64 < eps32 < 1.                *)
(*                                                                         *)
(* pos1 is measured in units of pi/4, so that pi is the number 4: the code *)
(* uses pos1 only in differences, ratios and comparisons with 0, pi/2 and  *)
(* -pi/2, all of which are independent of the unit.                        *)
(***************************************************************************)
EXTENDS Integers, Sequences, FiniteSets, TLC

(***************************************************************************)
(* Bounds of the model                                                     *)
(***************************************************************************)
Eps32Inv == 2
Eps64Inv == 4
\* pixels of the image that are free; in a larger image the leading
\* size - MaxPixels pixels are masked
MaxPixels == 2
\* image sizes large enough for the is_inside scratch to hold a 2x2-cell
\* and a 3x3-cell bounding box (2 and 3 bins per axis)
SizeFor2 == 16
SizeFor3 == 64

(***************************************************************************)
(* Extended rational arithmetic (C double)                                 *)
(***************************************************************************)
Abs(n) == IF n < 0 THEN -n ELSE n
Sgn(n) == IF n > 0 THEN 1 ELSE IF n < 0 THEN -1 ELSE 0

RECURSIVE GCD(_, _)
GCD(a, b) == IF b = 0 THEN a ELSE GCD(b, a % b)

NaN == <<0, 0>>
PInf == <<1, 0>>
NInf == <<-1, 0>>
Zero == <<0, 1>>
One == <<1, 1>>
Half == <<1, 2>>

R(n) == <<n, 1>>
Reduce(n, d, g) == <<n \div g, d \div g>>
Q(n, d) == Reduce(n, d, GCD(Abs(n), d))

IsNaN(a) == a = NaN
IsInf(a) == a[2] = 0 /\ a[1] # 0
IsFinite(a) == a[2] # 0

FNeg(a) == <<-a[1], a[2]>>
FAbs(a) == <<Abs(a[1]), a[2]>>

AddOver(a, b, g) ==
  Q(a[1] * (b[2] \div g) + b[1] * (a[2] \div g), (a[2] \div g) * b[2])

FAdd(a, b) ==
  IF IsNaN(a) \/ IsNaN(b) THEN NaN
  ELSE IF IsInf(a) THEN (IF IsInf(b) /\ b # a THEN NaN ELSE a)
  ELSE IF IsInf(b) THEN b
  ELSE AddOver(a, b, GCD(a[2], b[2]))

FSub(a, b) == FAdd(a, FNeg(b))

MulOver(a, b, g1, g2) ==
  <<(a[1] \div g1) * (b[1] \div g2), (a[2] \div g2) * (b[2] \div g1)>>

FMul(a, b) ==
  IF IsNaN(a) \/ IsNaN(b) THEN NaN
  ELSE IF IsInf(a) \/ IsInf(b)
       THEN (IF a[1] = 0 \/ b[1] = 0 THEN NaN ELSE <<Sgn(a[1]) * Sgn(b[1]), 0>>)
  ELSE MulOver(a, b, GCD(Abs(a[1]), b[2]), GCD(Abs(b[1]), a[2]))

FDiv(a, b) ==
  IF IsNaN(a) \/ IsNaN(b) THEN NaN
  ELSE IF IsInf(b) THEN (IF IsInf(a) THEN NaN ELSE Zero)
  ELSE IF IsInf(a) THEN (IF b[1] < 0 THEN FNeg(a) ELSE a)
  ELSE IF b[1] = 0 THEN <<Sgn(a[1]), 0>>
  ELSE FMul(a, <<Sgn(b[1]) * b[2], Abs(b[1])>>)

\* a < b, a <= b, a == b on doubles: every comparison with NaN is false
FLt(a, b) ==
  /\ ~IsNaN(a) /\ ~IsNaN(b)
  /\ IF IsInf(a) \/ IsInf(b)
     THEN a # b /\ (a = NInf \/ b = PInf)
     ELSE a[1] * b[2] < b[1] * a[2]
FEq(a, b) == ~IsNaN(a) /\ a = b
FLe(a, b) == FLt(a, b) \/ FEq(a, b)
FGt(a, b) == FLt(b, a)
FGe(a, b) == FLe(b, a)

\* <int> floor(x) of a finite double
Floor(a) == a[1] \div a[2]

\* the C value of a comparison, as a double factor
B2F(b) == IF b THEN One ELSE Zero

\* Cython's min(a, b, c, d) / max(a, b, c, d) on doubles
Min2(a, b) == IF FLt(b, a) THEN b ELSE a
Max2(a, b) == IF FGt(b, a) THEN b ELSE a
Min4(a, b, c, d) == Min2(Min2(Min2(a, b), c), d)
Max4(a, b, c, d) == Max2(Max2(Max2(a, b), c), d)

(***************************************************************************)
(* Geometry primitives (lines 49-152).  A point is <<i, j>>, a polygon a   *)
(* sequence of points (MyPoly.size is its length).                         *)
(***************************************************************************)
\* area4 without fabs: the signed area
area4_signed(a0, a1, b0, b1, c0, c1, d0, d1) ==
  FMul(Half, FSub(FMul(FSub(c0, a0), FSub(d1, b1)),
                  FMul(FSub(c1, a1), FSub(d0, b0))))

area4(a0, a1, b0, b1, c0, c1, d0, d1) ==
  FMul(Half, FAbs(FSub(FMul(FSub(c0, a0), FSub(d1, b1)),
                       FMul(FSub(c1, a1), FSub(d0, b0)))))

\* integrate without the factor 0.5 on the slope term
integrate_noHalf(A0, B0, AB) ==
  IF FEq(A0, B0) THEN Zero
  ELSE FAdd(FMul(AB.slope, FSub(FMul(B0, B0), FMul(A0, A0))),
            FMul(AB.intersect, FSub(B0, A0)))

integrate(A0, B0, AB) ==
  IF FEq(A0, B0) THEN Zero
  ELSE FAdd(FMul(FMul(AB.slope, FSub(FMul(B0, B0), FMul(A0, A0))), Half),
            FMul(AB.intersect, FSub(B0, A0)))

getBinNr(x0, pos0_min, dpos) == FDiv(FSub(x0, pos0_min), dpos)

pi == R(4)
piover2 == FMul(pi, Half)

getBin1Nr(x0, pos0_min, delta, var) ==
  IF var
  THEN IF FGe(x0, Zero)
       THEN FDiv(FSub(x0, pos0_min), delta)
       ELSE FDiv(FSub(FAdd(x0, FMul(R(2), pi)), pos0_min), delta)
  ELSE FDiv(FSub(x0, pos0_min), delta)

ComputeIntersection0(S, E, clipEdge) ==
  <<clipEdge,
    FAdd(FDiv(FMul(FSub(E[2], S[2]), FSub(clipEdge, S[1])), FSub(E[1], S[1])), S[2])>>

ComputeIntersection1(S, E, clipEdge) ==
  <<FAdd(FDiv(FMul(FSub(E[1], S[1]), FSub(clipEdge, S[2])), FSub(E[2], S[2])), S[1]),
    clipEdge>>

\* (tmp > 0) - (tmp < 0)
SignOf(tmp) == (IF FGt(tmp, Zero) THEN 1 ELSE 0) - (IF FLt(tmp, Zero) THEN 1 ELSE 0)

point_and_line(x0, y0, x1, y1, x, y) ==
  SignOf(FSub(FMul(FSub(y, y0), FSub(x1, x0)), FMul(FSub(x, x0), FSub(y1, y0))))

\* foo without the pairings that put A and D on the same side
foo_adjacent(A, B, C, D) ==
  LET hi(v) == FGt(v, piover2)
      lo(v) == FLt(v, FNeg(piover2))
  IN \/ hi(A) /\ hi(B) /\ lo(C) /\ lo(D)
     \/ lo(A) /\ lo(B) /\ hi(C) /\ hi(D)
     \/ hi(A) /\ lo(B) /\ hi(C) /\ lo(D)
     \/ lo(A) /\ hi(B) /\ lo(C) /\ hi(D)

foo(A, B, C, D) ==
  LET hi(v) == FGt(v, piover2)
      lo(v) == FLt(v, FNeg(piover2))
  IN \/ hi(A) /\ hi(B) /\ lo(C) /\ lo(D)
     \/ lo(A) /\ lo(B) /\ hi(C) /\ hi(D)
     \/ hi(A) /\ lo(B) /\ hi(C) /\ lo(D)
     \/ lo(A) /\ hi(B) /\ lo(C) /\ hi(D)
     \/ hi(A) /\ lo(B) /\ lo(C) /\ hi(D)
     \/ lo(A) /\ hi(B) /\ hi(C) /\ lo(D)

\* sum over the ring of data[k].i * data[k+1].j - data[k+1].i * data[k].j
RECURSIVE Shoelace(_, _)
Shoelace(poly, k) ==
  IF k > Len(poly) THEN Zero
  ELSE FAdd(FSub(FMul(poly[k][1], poly[(k % Len(poly)) + 1][2]),
                 FMul(poly[(k % Len(poly)) + 1][1], poly[k][2])),
            Shoelace(poly, k + 1))

\* area_n has a branch for each size 3..8 and returns nothing for any other
\* size; Cython then returns the default 0 of the C return type.
area_n(poly) ==
  IF Len(poly) \in 3..8 THEN FMul(Half, FAbs(Shoelace(poly, 1))) ELSE Zero

(***************************************************************************)
(* The line-integral splitting scheme, written three times in the source:  *)
(* lines 328-352 (1D), 583-614 (2D, single column) and 629-660 (2D, single *)
(* row).  u are the four corner coordinates along the split axis, already  *)
(* translated to the first bin; v the other coordinate.                    *)
(***************************************************************************)
Edge(slope, u0, v0) == [slope |-> slope, intersect |-> FSub(v0, FMul(slope, u0))]
EdgeFn(u0, v0, u1, v1) == Edge(FDiv(FSub(v1, v0), FSub(u1, u0)), u0, v0)

\* (X<=bin)*(X<=(bin+1))*bin + (X>bin)*(X<=(bin+1))*X + (X>bin)*(X>(bin+1))*(bin+1)
Lim(X, bin) ==
  FAdd(FAdd(FMul(FMul(B2F(FLe(X, R(bin))), B2F(FLe(X, R(bin + 1)))), R(bin)),
            FMul(FMul(B2F(FGt(X, R(bin))), B2F(FLe(X, R(bin + 1)))), X)),
       FMul(FMul(B2F(FGt(X, R(bin))), B2F(FGt(X, R(bin + 1)))), R(bin + 1)))

Integrate4(A_lim, B_lim, C_lim, D_lim, AB, BC, CD, DA) ==
  FAdd(FAdd(FAdd(integrate(A_lim, B_lim, AB), integrate(B_lim, C_lim, BC)),
            integrate(C_lim, D_lim, CD)),
       integrate(D_lim, A_lim, DA))

PartialArea(u, AB, BC, CD, DA, bin) ==
  Integrate4(Lim(u[1], bin), Lim(u[2], bin), Lim(u[3], bin), Lim(u[4], bin),
             AB, BC, CD, DA)

\* tmp = fabs(partialArea) * oneOverPixelArea, for each local bin 0..n-1
SplitLoop(u, AB, BC, CD, DA, oneOverPixelArea, n) ==
  [b \in 1..n |-> FMul(FAbs(PartialArea(u, AB, BC, CD, DA, b - 1)), oneOverPixelArea)]

SplitWeights(u, v, areaPixel, n) ==
  SplitLoop(u, EdgeFn(u[1], v[1], u[2], v[2]), EdgeFn(u[2], v[2], u[3], v[3]),
            EdgeFn(u[3], v[3], u[4], v[4]), EdgeFn(u[4], v[4], u[1], v[1]),
            FDiv(One, areaPixel), n)

(***************************************************************************)
(* Call arguments and the prologue (lines 192-272, 401-498).               *)
(*                                                                         *)
(* args is the call: op ("1D" = fullSplit1D, "2D" = fullSplit2D), size,    *)
(* all_bins0/all_bins1 (bins), pos0Range/pos1Range and dummy/delta_dummy   *)
(* (<<>> for None), has_* for the optional arrays, and ext, the extremes   *)
(* pos[:, :, 0].min(), .max(), pos[:, :, 1].min(), .max() of the pos       *)
(* array.  The pixels themselves are drawn when the loop reads them.       *)
(***************************************************************************)
eps(args) == IF args.op = "1D" THEN Q(1, Eps32Inv) ELSE Q(1, Eps64Inv)

pos0_min(args) ==
  IF Len(args.pos0Range) > 1 THEN Min2(args.pos0Range[1], args.pos0Range[2])
  ELSE args.ext.min0
pos0_maxin(args) ==
  IF Len(args.pos0Range) > 1 THEN Max2(args.pos0Range[1], args.pos0Range[2])
  ELSE args.ext.max0
pos0_max(args) == FMul(pos0_maxin(args), FAdd(One, eps(args)))

pos1_min(args) ==
  IF Len(args.pos1Range) > 1 THEN Min2(args.pos1Range[1], args.pos1Range[2])
  ELSE args.ext.min1
pos1_maxin(args) ==
  IF Len(args.pos1Range) > 1 THEN Max2(args.pos1Range[1], args.pos1Range[2])
  ELSE args.ext.max1
pos1_max(args) == FMul(pos1_maxin(args), FAdd(One, eps(args)))

\* dpos (1D) and delta0 (2D)
dpos(args) == FDiv(FSub(pos0_max(args), pos0_min(args)), R(args.all_bins0))
delta1(args) == FDiv(FSub(pos1_max(args), pos1_min(args)), R(args.all_bins1))

check_dummy(args) == Len(args.dummy) > 0
cdummy(args) == IF Len(args.dummy) > 0 THEN args.dummy[1] ELSE Zero
cddummy(args) ==
  IF Len(args.dummy) > 0 /\ Len(args.delta_dummy) > 0 THEN args.delta_dummy[1] ELSE Zero

\* check_pos1 is declared False and never assigned (line 231 sets do_pos1)
check_pos1 == FALSE

\* numpy.ascontiguousarray(mask.ravel(), dtype=numpy.int8)
ToInt8(m) == ((m + 128) % 256) - 128

\* is_inside = numpy.zeros((<int>(1.5*sqrt(size)/all_bins0), <int>(1.5*sqrt(size)/all_bins1)))
\* <int>(1.5*sqrt(size)/b) is the largest d with (2*b*d)^2 <= 9*size
ScratchDim(size, b) ==
  CHOOSE d \in 0..(2 * size + 1) :
    /\ 4 * b * b * d * d <= 9 * size
    /\ 4 * b * b * (d + 1) * (d + 1) > 9 * size

(***************************************************************************)
(* Per-pixel front end shared by both loops: mask, dummy, corrections.     *)
(* A pixel p is [pos, data, mask, dark, flat, polarization, solidangle].   *)
(***************************************************************************)
IsMasked(args, p) == args.has_mask /\ ToInt8(p.mask) # 0

\* IsDummy with a strict tolerance test
IsDummy_strict(args, p) ==
  /\ check_dummy(args)
  /\ \/ FEq(cddummy(args), Zero) /\ FEq(p.data, cdummy(args))
     \/ ~FEq(cddummy(args), Zero) /\ FLt(FAbs(FSub(p.data, cdummy(args))), cddummy(args))

IsDummy(args, p) ==
  /\ check_dummy(args)
  /\ \/ FEq(cddummy(args), Zero) /\ FEq(p.data, cdummy(args))
     \/ ~FEq(cddummy(args), Zero) /\ FLe(FAbs(FSub(p.data, cdummy(args))), cddummy(args))

\* Corrected with the dark-subtracted intensity clamped at zero
Corrected_clamped(args, p) ==
  LET d1 == IF args.has_dark THEN Max2(FSub(p.data, p.dark), Zero) ELSE p.data
      d2 == IF args.has_flat THEN FDiv(d1, p.flat) ELSE d1
      d3 == IF args.has_polarization THEN FDiv(d2, p.polarization) ELSE d2
  IN IF args.has_solidangle THEN FDiv(d3, p.solidangle) ELSE d3

\* Corrected with a negative result clamped at zero
Corrected_floored(args, p) ==
  LET d1 == IF args.has_dark THEN FSub(p.data, p.dark) ELSE p.data
      d2 == IF args.has_flat THEN FDiv(d1, p.flat) ELSE d1
      d3 == IF args.has_polarization THEN FDiv(d2, p.polarization) ELSE d2
  IN Max2(IF args.has_solidangle THEN FDiv(d3, p.solidangle) ELSE d3, Zero)

Corrected(args, p) ==
  LET d1 == IF args.has_dark THEN FSub(p.data, p.dark) ELSE p.data
      d2 == IF args.has_flat THEN FDiv(d1, p.flat) ELSE d1
      d3 == IF args.has_polarization THEN FDiv(d2, p.polarization) ELSE d2
  IN IF args.has_solidangle THEN FDiv(d3, p.solidangle) ELSE d3

Skipped(path) == [path |-> path, data |-> Zero, dep |-> <<>>, wr |-> <<>>, rd |-> {}]

(***************************************************************************)
(* fullSplit1D, one iteration of the pixel loop (lines 276-353).           *)
(* Result: the path taken, the corrected intensity, and dep, the sequence  *)
(* of stores [k, w]: outCount[k] += w, outData[k] += data * w (k is        *)
(* <<bin, 0>>).  The stages below follow the loop body in order; each      *)
(* passes on the locals computed so far.                                   *)
(***************************************************************************)
Translate(c, bin_min) == [n \in 1..4 |-> FSub(c[n], R(bin_min))]
Raw(p, axis) == [n \in 1..4 |-> p.pos[n][axis]]

\* lines 339-353
Spread1D(bin0_min, data, w) ==
  [path |-> "split", data |-> data,
   dep |-> [b \in 1..Len(w) |-> [k |-> <<bin0_min + b - 1, 0>>, w |-> w[b]]],
   wr |-> <<>>, rd |-> {}]

\* lines 323-337: u is A0..D0 after A0 -= bin0_min, v is A1..D1
Split1D(u, v, bin0_min, bin0_max, data) ==
  Spread1D(bin0_min, data,
           SplitWeights(u, v, area4(u[1], v[1], u[2], v[2], u[3], v[3], u[4], v[4]),
                        bin0_max - bin0_min + 1))

\* Deposit1D whose single-bin path counts the pixel for one half
Deposit1D_half(p, c0, bin0_min, bin0_max, data) ==
  IF bin0_min = bin0_max
  THEN [path |-> "single", data |-> data,
        dep |-> <<[k |-> <<bin0_min, 0>>, w |-> Half]>>, wr |-> <<>>, rd |-> {}]
  ELSE Split1D(Translate(c0, bin0_min), Raw(p, 2), bin0_min, bin0_max, data)

\* lines 316-353
Deposit1D(p, c0, bin0_min, bin0_max, data) ==
  IF bin0_min = bin0_max
  THEN [path |-> "single", data |-> data,
        dep |-> <<[k |-> <<bin0_min, 0>>, w |-> One]>>, wr |-> <<>>, rd |-> {}]
  ELSE Split1D(Translate(c0, bin0_min), Raw(p, 2), bin0_min, bin0_max, data)

\* lines 296-314
Range1D(args, p, c0, min0, max0, min1, max1) ==
  IF FLt(max0, Zero) \/ FGe(min0, R(args.all_bins0)) THEN Skipped("out")
  ELSE IF check_pos1 /\ (FLt(max1, pos1_min(args)) \/ FGt(min1, pos1_maxin(args)))
       THEN Skipped("out")
  ELSE Deposit1D(p, c0, Floor(min0), Floor(max0), Corrected(args, p))

\* lines 294-300
Bounds1D(args, p, c0, c1) ==
  Range1D(args, p, c0, Min4(c0[1], c0[2], c0[3], c0[4]), Max4(c0[1], c0[2], c0[3], c0[4]),
          Min4(c1[1], c1[2], c1[3], c1[4]), Max4(c1[1], c1[2], c1[3], c1[4]))

\* lines 285-291: A0, B0, C0, D0
Corners0(args, p) == [n \in 1..4 |-> getBinNr(p.pos[n][1], pos0_min(args), dpos(args))]

Pixel1D(args, p) ==
  IF IsMasked(args, p) THEN Skipped("masked")
  ELSE IF IsDummy(args, p) THEN Skipped("dummy")
  ELSE Bounds1D(args, p, Corners0(args, p), Raw(p, 2))

(***************************************************************************)
(* The is_inside scratch (line 464) is a C-contiguous int8 buffer of       *)
(* dim0 x dim1 bytes, modelled by a function on the byte offsets           *)
(* 0..dim0*dim1-1.  With boundscheck off, is_inside[i, j] addresses byte   *)
(* i*dim1 + j: inside the buffer whenever that offset is, outside the      *)
(* buffer otherwise.                                                       *)
(***************************************************************************)
dim0(args) == ScratchDim(args.size, args.all_bins0)
dim1(args) == ScratchDim(args.size, args.all_bins1)
ScratchOff(args, i, j) == i * dim1(args) + j
InScratch(args, i, j) ==
  ScratchOff(args, i, j) >= 0 /\ ScratchOff(args, i, j) < dim0(args) * dim1(args)

RECURSIVE ScratchStore(_, _, _, _)
ScratchStore(args, scr, wr, n) ==
  IF n > Len(wr) THEN scr
  ELSE ScratchStore(args,
         IF InScratch(args, wr[n].at[1], wr[n].at[2])
         THEN [scr EXCEPT ![ScratchOff(args, wr[n].at[1], wr[n].at[2])] = wr[n].val]
         ELSE scr,
         wr, n + 1)

\* a load outside the buffer reads back what this iteration stored at
\* [i, j] (wr), and the byte g where it stored nothing
LoadOutside(wr, i, j, g) ==
  IF \E n \in 1..Len(wr) : wr[n].at = <<i, j>>
  THEN wr[CHOOSE n \in 1..Len(wr) : wr[n].at = <<i, j>>].val
  ELSE g

ScratchLoad(args, scr, wr, i, j, g) ==
  IF InScratch(args, i, j) THEN scr[ScratchOff(args, i, j)] ELSE LoadOutside(wr, i, j, g)

(***************************************************************************)
(* One Sutherland-Hodgman pass of the general path (lines 719-776).        *)
(* axis 1 clips on .i with ComputeIntersection0, axis 2 on .j with         *)
(* ComputeIntersection1; gt = TRUE keeps coordinate > edge (and treats     *)
(* <= edge as outside), gt = FALSE keeps coordinate < edge.                *)
(***************************************************************************)
ClipInside(P, axis, edge, gt) ==
  IF gt THEN FGt(P[axis], edge) ELSE FLt(P[axis], edge)
ClipOutside(P, axis, edge, gt) ==
  IF gt THEN FLe(P[axis], edge) ELSE FGe(P[axis], edge)
ClipCross(S, E, axis, edge) ==
  IF axis = 1 THEN ComputeIntersection0(S, E, edge) ELSE ComputeIntersection1(S, E, edge)

ClipEmit(dst, S, E, axis, edge, gt) ==
  IF ClipInside(E, axis, edge, gt)
  THEN (IF ClipOutside(S, axis, edge, gt)
        THEN dst \o <<ClipCross(S, E, axis, edge), E>>
        ELSE dst \o <<E>>)
  ELSE IF ClipInside(S, axis, edge, gt)
       THEN dst \o <<ClipCross(S, E, axis, edge)>>
       ELSE dst

RECURSIVE ClipLoop(_, _, _, _, _, _, _)
ClipLoop(src, k, S, dst, axis, edge, gt) ==
  IF k > Len(src) THEN dst
  ELSE ClipLoop(src, k + 1, src[k], ClipEmit(dst, S, src[k], axis, edge, gt),
                axis, edge, gt)

ClipPass(src, axis, edge, gt) ==
  IF Len(src) = 0 THEN <<>>
  ELSE ClipLoop(src, 1, src[Len(src)], <<>>, axis, edge, gt)

\* list2.size, list1.size, list2.size, list1.size after each of the four
\* passes for cell (i, j)
ClipSizes(quad, i, j) ==
  <<Len(ClipPass(quad, 1, R(i), TRUE)),
    Len(ClipPass(ClipPass(quad, 1, R(i), TRUE), 2, R(j + 1), FALSE)),
    Len(ClipPass(ClipPass(ClipPass(quad, 1, R(i), TRUE), 2, R(j + 1), FALSE),
                 1, R(i + 1), FALSE)),
    Len(ClipPass(ClipPass(ClipPass(ClipPass(quad, 1, R(i), TRUE), 2, R(j + 1), FALSE),
                          1, R(i + 1), FALSE),
                 2, R(j), TRUE))>>

\* the four passes for cell (i, j): x > i, y < j+1, x < i+1, y > j
ClipCell(quad, i, j) ==
  ClipPass(ClipPass(ClipPass(ClipPass(quad, 1, R(i), TRUE),
                             2, R(j + 1), FALSE),
                    1, R(i + 1), FALSE),
           2, R(j), TRUE)

(***************************************************************************)
(* fullSplit2D, one iteration of the pixel loop (lines 501-785).           *)
(* scr is is_inside as the previous pixels left it, g the byte found by    *)
(* loads outside the buffer.  Result as Pixel1D (k is <<bin0, bin1>>),     *)
(* with wr the sequence of scratch stores [at, val] and rd the set of      *)
(* scratch cells loaded.                                                   *)
(***************************************************************************)
\* lines 683-687
InsideTest(q, i, j) ==
  Abs(point_and_line(q[1][1], q[1][2], q[2][1], q[2][2], R(i), R(j))
      + point_and_line(q[2][1], q[2][2], q[3][1], q[3][2], R(i), R(j))
      + point_and_line(q[3][1], q[3][2], q[4][1], q[4][2], R(i), R(j))
      + point_and_line(q[4][1], q[4][2], q[1][1], q[1][2], R(i), R(j))) \div 4

\* row-major enumeration of range(lo0, hi0) x range(lo1, hi1)
GridSeq(lo0, hi0, lo1, hi1) ==
  IF hi0 <= lo0 \/ hi1 <= lo1 THEN <<>>
  ELSE [n \in 1..((hi0 - lo0) * (hi1 - lo1)) |->
         <<lo0 + ((n - 1) \div (hi1 - lo1)), lo1 + ((n - 1) % (hi1 - lo1))>>]

\* lines 695-785, one cell: tmp_i is the sum of its four is_inside corners
CellDep(tmp_i, i, j, quad, oneOverPixelArea, bin0_min, bin1_min) ==
  IF tmp_i = 4
  THEN <<[k |-> <<bin0_min + i, bin1_min + j>>, w |-> oneOverPixelArea]>>
  ELSE IF tmp_i \in {1, 2, 3}
       THEN <<[k |-> <<bin0_min + i, bin1_min + j>>,
               w |-> FMul(FAbs(area_n(ClipCell(quad, i, j))), oneOverPixelArea)]>>
       ELSE <<>>

RECURSIVE GeneralDeps(_, _, _, _, _, _, _)
GeneralDeps(cells, n, sums, quad, oneOverPixelArea, bin0_min, bin1_min) ==
  IF n > Len(cells) THEN <<>>
  ELSE CellDep(sums[n], cells[n][1], cells[n][2], quad, oneOverPixelArea,
               bin0_min, bin1_min)
       \o GeneralDeps(cells, n + 1, sums, quad, oneOverPixelArea, bin0_min, bin1_min)

\* lines 691-694
CornerSum(args, scr2, wr, g, i, j) ==
  ScratchLoad(args, scr2, wr, i, j, g) + ScratchLoad(args, scr2, wr, i, j + 1, g)
  + ScratchLoad(args, scr2, wr, i + 1, j, g) + ScratchLoad(args, scr2, wr, i + 1, j + 1, g)

CellCorners(cells) ==
  UNION {{<<c[1], c[2]>>, <<c[1], c[2] + 1>>, <<c[1] + 1, c[2]>>, <<c[1] + 1, c[2] + 1>>} :
           c \in {cells[n] : n \in 1..Len(cells)}}

\* lines 689-785
Scan2D(args, g, data, quad, oneOverPixelArea, bin0_min, bin1_min, cells, wr, scr2) ==
  [path |-> "general", data |-> data,
   dep |-> GeneralDeps(cells, 1,
                       [n \in 1..Len(cells) |->
                          CornerSum(args, scr2, wr, g, cells[n][1], cells[n][2])],
                       quad, oneOverPixelArea, bin0_min, bin1_min),
   wr |-> wr, rd |-> CellCorners(cells)]

\* lines 681-687
Mark2D(args, scr, g, data, quad, oneOverPixelArea, bin0_min, bin1_min, bins0, bins1, wr) ==
  Scan2D(args, g, data, quad, oneOverPixelArea, bin0_min, bin1_min,
         GridSeq(0, bins0, 0, bins1), wr, ScratchStore(args, scr, wr, 1))

InnerStores(quad, inner) ==
  [n \in 1..Len(inner) |->
     [at |-> inner[n], val |-> InsideTest(quad, inner[n][1], inner[n][2])]]

\* lines 665-678: u0, u1 are the corners after A0 -= bin0_min, A1 -= bin1_min
General2D(args, scr, g, data, u0, u1, bin0_min, bin1_min, bins0, bins1) ==
  Mark2D(args, scr, g, data,
         [n \in 1..4 |-> <<u0[n], u1[n]>>],
         FDiv(One, area4(u0[1], u1[1], u0[2], u1[2], u0[3], u1[3], u0[4], u1[4])),
         bin0_min, bin1_min, bins0, bins1,
         InnerStores([n \in 1..4 |-> <<u0[n], u1[n]>>], GridSeq(1, bins0, 1, bins1)))

\* lines 575-614: u1 is A1..D1 after A1 -= bin1_min
Column2D(c0, u1, bin0_min, bin1_min, data, w) ==
  [path |-> "column", data |-> data,
   dep |-> [b \in 1..Len(w) |-> [k |-> <<bin0_min, bin1_min + b - 1>>, w |-> w[b]]],
   wr |-> <<>>, rd |-> {}]

\* lines 620-660: u0 is A0..D0 after A0 -= bin0_min
Row2D(u0, c1, bin0_min, bin1_min, data, w) ==
  [path |-> "row", data |-> data,
   dep |-> [b \in 1..Len(w) |-> [k |-> <<bin0_min + b - 1, bin1_min>>, w |-> w[b]]],
   wr |-> <<>>, rd |-> {}]

\* lines 561-785
Deposit2D(args, scr, g, c0, c1, u0, u1, bin0_min, bin0_max, bin1_min, bin1_max, data) ==
  IF bin0_min = bin0_max
  THEN IF bin1_min = bin1_max
       THEN [path |-> "single", data |-> data,
             dep |-> <<[k |-> <<bin0_min, bin1_min>>, w |-> One]>>,
             wr |-> <<>>, rd |-> {}]
       ELSE Column2D(c0, u1, bin0_min, bin1_min, data,
                     SplitWeights(u1, c0,
                                  area4(c0[1], u1[1], c0[2], u1[2], c0[3], u1[3], c0[4], u1[4]),
                                  bin1_max + 1 - bin1_min))
  ELSE IF bin1_min = bin1_max
       THEN Row2D(u0, c1, bin0_min, bin1_min, data,
                  SplitWeights(u0, c1,
                               area4(u0[1], c1[1], u0[2], c1[2], u0[3], c1[3], u0[4], c1[4]),
                               bin0_max + 1 - bin0_min))
       ELSE General2D(args, scr, g, data, u0, u1, bin0_min, bin1_min,
                      bin0_max - bin0_min + 1, bin1_max - bin1_min + 1)

\* lines 554-557
Floor2D(args, p, scr, g, c0, c1, bin0_min, bin0_max, bin1_min, bin1_max) ==
  Deposit2D(args, scr, g, c0, c1, Translate(c0, bin0_min), Translate(c1, bin1_min),
            bin0_min, bin0_max, bin1_min, bin1_max, Corrected(args, p))

\* lines 540-557
Range2D(args, p, scr, g, c0, c1, min0, max0, min1, max1) ==
  IF FLt(max0, Zero) \/ FGe(min0, R(args.all_bins0)) \/ FLt(max1, Zero)
  THEN Skipped("out")
  ELSE Floor2D(args, p, scr, g, c0, c1, Floor(min0), Floor(max0), Floor(min1), Floor(max1))

\* lines 535-538
Bounds2D(args, p, scr, g, c0, c1) ==
  Range2D(args, p, scr, g, c0, c1,
          Min4(c0[1], c0[2], c0[3], c0[4]), Max4(c0[1], c0[2], c0[3], c0[4]),
          Min4(c1[1], c1[2], c1[3], c1[4]), Max4(c1[1], c1[2], c1[3], c1[4]))

\* lines 516-520: var, A1, B1, C1, D1
Corners1(args, p) ==
  [n \in 1..4 |->
     getBin1Nr(p.pos[n][2], pos1_min(args), delta1(args),
               foo(p.pos[1][2], p.pos[2][2], p.pos[3][2], p.pos[4][2]))]

Pixel2D(args, p, scr, g) ==
  IF IsDummy(args, p) THEN Skipped("dummy")
  ELSE IF IsMasked(args, p) THEN Skipped("masked")
  ELSE Bounds2D(args, p, scr, g, Corners0(args, p), Corners1(args, p))

(***************************************************************************)
(* Output buffers.  outCount, outData and outMerge are C-contiguous arrays *)
(* of all_bins0 x all_bins1 doubles (all_bins1 = 1 in 1D), functions on    *)
(* the cells <<k0, k1>>.  With boundscheck and wraparound off, a store to  *)
(* [k0, k1] addresses element k0*all_bins1 + k1 of the buffer: another     *)
(* cell of the array when that offset is inside the buffer, memory outside *)
(* the array otherwise.                                                    *)
(***************************************************************************)
Cells(args) == (0..(args.all_bins0 - 1)) \X (0..(args.all_bins1 - 1))
Flat(args, k) == k[1] * args.all_bins1 + k[2]
InBuffer(args, k) == Flat(args, k) >= 0 /\ Flat(args, k) < args.all_bins0 * args.all_bins1
Addressed(args, k) == <<Flat(args, k) \div args.all_bins1, Flat(args, k) % args.all_bins1>>

\* outCount[k] += w for every store of dep, in order
RECURSIVE AddCount(_, _, _, _)
AddCount(args, arr, dep, n) ==
  IF n > Len(dep) THEN arr
  ELSE AddCount(args,
         IF InBuffer(args, dep[n].k)
         THEN [arr EXCEPT ![Addressed(args, dep[n].k)] = FAdd(@, dep[n].w)]
         ELSE arr,
         dep, n + 1)

\* outData[k] += data * w for every store of dep, in order
RECURSIVE AddData(_, _, _, _, _)
AddData(args, arr, dep, data, n) ==
  IF n > Len(dep) THEN arr
  ELSE AddData(args,
         IF InBuffer(args, dep[n].k)
         THEN [arr EXCEPT ![Addressed(args, dep[n].k)] = FAdd(@, FMul(data, dep[n].w))]
         ELSE arr,
         dep, data, n + 1)

\* the accesses of one iteration that fall outside their buffer
StoresOutside(args, res) ==
  {n \in 1..Len(res.dep) : ~InBuffer(args, res.dep[n].k)}
ScratchStoresOutside(args, res) ==
  {n \in 1..Len(res.wr) : ~InScratch(args, res.wr[n].at[1], res.wr[n].at[2])}
ScratchLoadsOutside(args, rd) == {c \in rd : ~InScratch(args, c[1], c[2])}

(***************************************************************************)
(* The final loop (lines 355-359, 786-791), one bin.                       *)
(* epsilon = 1e-10 exceeds the model's integers: x > 1e-10 is decided as   *)
(* d/n < 10^10, i.e. floor(floor(d/n) / 10^5) < 10^5, for x = n/d > 0.     *)
(***************************************************************************)
GtEpsilon(x) ==
  /\ ~IsNaN(x)
  /\ x[1] > 0
  /\ (x[2] = 0 \/ ((x[2] \div x[1]) \div 100000) < 100000)

\* Merge that leaves 0 in the empty bins
Merge_zero(count, data, dummyval) ==
  IF GtEpsilon(count) THEN FDiv(data, count) ELSE Zero

Merge(count, data, dummyval) ==
  IF GtEpsilon(count) THEN FDiv(data, count) ELSE dummyval

(***************************************************************************)
(* Inputs.  Corner coordinates: pos0 in raw units, pos1 in raw units (1D,  *)
(* and 2D without wrap-around) or in units of pi/4.                        *)
(***************************************************************************)
P(x, y) == <<R(x), R(y)>>
\* n half-bins of the 2D runs over [0, 8] (8 * (1 + 1/4) / 2 bins = 5 per bin)
H(n) == Q(5 * n, 2)
PH(x, y) == <<H(x), H(y)>>
Shift0(g, dx) == [c \in 1..4 |-> <<FAdd(g[c][1], R(dx)), g[c][2]>>]
Reversed(g) == <<g[4], g[3], g[2], g[1]>>

\* 1D: a square in one bin, a square over two bins, a kite, a trapezoid
\* over the whole range, a triangle (A = B), segments of zero area
S1 == <<P(0, 0), P(1, 0), P(1, 1), P(0, 1)>>
S2 == <<P(1, 0), P(3, 0), P(3, 1), P(1, 1)>>
S3 == <<P(1, 1), P(2, 0), P(4, 1), P(2, 2)>>
S4 == <<P(0, 0), P(4, 0), P(3, 1), P(1, 1)>>
S5 == <<P(1, 0), P(1, 0), P(3, 1), P(2, 2)>>
S6 == <<P(1, 0), P(3, 0), P(3, 0), P(1, 0)>>
S7 == <<P(0, 0), P(1, 0), P(1, 0), P(0, 0)>>
Geoms1D == {S1, S2, S3, S4, Reversed(S2)}
Geoms1DOdd == {S1, S5, S6, S7, Reversed(S3)}
Geoms1DNeg == {Shift0(S1, -4), Shift0(S2, -4), Shift0(S4, -4)}
\* pos1 in [0, 1], in [5, 6], in [-3, -2]
S8 == <<P(0, 5), P(1, 5), P(1, 6), P(0, 6)>>
S9 == <<P(1, -3), P(3, -3), P(3, -2), P(1, -2)>>
Geoms1DChi == {S1, S8, S9}

\* 2D: single cell, single column, single row, square and diamond around a
\* lattice point, a band between two lattice points, the whole data range,
\* zero-area segments, pixels reaching over the upper pos1 and lower pos0 end
T1 == <<PH(0, 0), PH(1, 0), PH(1, 1), PH(0, 1)>>
T2 == <<PH(0, 1), PH(1, 1), PH(1, 3), PH(0, 3)>>
T3 == <<PH(1, 0), PH(3, 0), PH(3, 1), PH(1, 1)>>
T4 == <<PH(1, 1), PH(3, 1), PH(3, 3), PH(1, 3)>>
T5 == <<PH(1, 2), PH(2, 1), PH(3, 2), PH(2, 3)>>
T7 == <<PH(0, 2), PH(2, 0), PH(3, 0), PH(0, 3)>>
T8 == <<P(0, 0), P(8, 0), P(8, 8), P(0, 8)>>
T9 == <<PH(1, 0), PH(3, 0), PH(3, 0), PH(1, 0)>>
T10 == <<PH(0, 3), PH(1, 3), PH(1, 5), PH(0, 5)>>
T11 == <<PH(-1, 0), PH(1, 0), PH(1, 1), PH(-1, 1)>>
T12 == <<PH(1, 1), PH(5, 1), PH(5, 5), PH(1, 5)>>
Geoms2D == {T1, T2, T3}
Geoms2DGeneral == {T5, Reversed(T4)}
Geoms2DOdd == {T7, T8}
Geoms2DEdge == {T9, T10, T11}
Geoms2DDerived == {T1, T8}
Geoms2DFor2 == {T2, T4, T5, T7}
Geoms2DFor3 == {T4, T7, T12}
\* pos1 in units of pi/4 over (-pi, pi): a pixel across the +-pi cut and one
\* clear of it
W1 == <<<<H(0), Q(7, 2)>>, <<H(1), Q(7, 2)>>, <<H(1), Q(-7, 2)>>, <<H(0), Q(-7, 2)>>>>
W2 == <<<<H(0), R(-1)>>, <<H(1), R(-1)>>, <<H(1), R(1)>>, <<H(0), R(1)>>>>
W3 == <<<<H(0), R(3)>>, <<H(1), Q(7, 2)>>, <<H(1), Q(-7, 2)>>, <<H(0), R(-3)>>>>
Geoms2DWrap == {W1, W2, W3}
\* across the cut from 7pi/8 to -5pi/8, in the last and in the first pos0 bin
W4 == <<<<H(2), Q(7, 2)>>, <<H(3), Q(7, 2)>>, <<H(3), Q(-5, 2)>>, <<H(2), Q(-5, 2)>>>>
W5 == <<<<H(0), Q(7, 2)>>, <<H(1), Q(7, 2)>>, <<H(1), Q(-5, 2)>>, <<H(0), Q(-5, 2)>>>>
Geoms2DWrap3 == {W4, W5}

Pixel(g, d, m) ==
  [pos |-> g, data |-> d, mask |-> m,
   dark |-> R(12), flat |-> R(2), polarization |-> R(4), solidangle |-> R(5)]

NoFlags == [mask |-> FALSE, dark |-> FALSE, flat |-> FALSE,
            polarization |-> FALSE, solidangle |-> FALSE]
MaskOnly == [NoFlags EXCEPT !.mask = TRUE]
DarkFlat == [NoFlags EXCEPT !.dark = TRUE, !.flat = TRUE]
FlatSolid == [NoFlags EXCEPT !.flat = TRUE, !.solidangle = TRUE]
AllFlags == [mask |-> TRUE, dark |-> TRUE, flat |-> TRUE,
             polarization |-> TRUE, solidangle |-> TRUE]

\* <<dummy, delta_dummy>>
NoDummy == << <<>>, <<>> >>
Dummy(d) == << <<R(d)>>, <<>> >>
DummyDelta(d, dd) == << <<R(d)>>, <<R(dd)>> >>

\* <<dummy and delta_dummy, optional arrays present>>
DataConfigs ==
  {<<NoDummy, NoFlags>>, <<NoDummy, MaskOnly>>, <<NoDummy, AllFlags>>,
   <<NoDummy, FlatSolid>>,
   <<Dummy(-1), NoFlags>>, <<Dummy(-1), DarkFlat>>,
   <<DummyDelta(-1, 0), NoFlags>>, <<DummyDelta(-1, -2), NoFlags>>,
   <<DummyDelta(-1, 2), MaskOnly>>, <<DummyDelta(-1, 2), AllFlags>>}

NoExt == [min0 |-> Zero, max0 |-> Zero, min1 |-> Zero, max1 |-> Zero]
Ext(lo0, hi0, lo1, hi1) ==
  [min0 |-> R(lo0), max0 |-> R(hi0), min1 |-> R(lo1), max1 |-> R(hi1)]

\* lines 409-416: all_bins0, all_bins1 from bins (1D: bins itself)
AllBins(op, b) == IF op = "2D" /\ b <= 0 THEN 1 ELSE b

\* size is weights.size; pos_shape is pos.shape and *_size the size of each
\* optional array as passed, here those of a well-formed call
Args(op, size, b0, b1, r0, r1, dm, fl, ext, pool) ==
  [op |-> op, size |-> size, bins |-> <<b0, b1>>,
   all_bins0 |-> AllBins(op, b0), all_bins1 |-> AllBins(op, b1),
   pos_shape |-> <<size, 4, 2>>,
   mask_size |-> size, dark_size |-> size, flat_size |-> size,
   polarization_size |-> size, solidangle_size |-> size,
   pos0Range |-> r0, pos1Range |-> r1, dummy |-> dm[1], delta_dummy |-> dm[2],
   has_mask |-> fl.mask, has_dark |-> fl.dark, has_flat |-> fl.flat,
   has_polarization |-> fl.polarization, has_solidangle |-> fl.solidangle,
   ext |-> ext, pool |-> pool]

\* pool: the values the entries of pos, weights and mask are drawn from
GeomPool(gs) == {Pixel(g, R(10), 0) : g \in gs}
\* g1 lies in one bin, g2 spans two; mask 256 is 0 as an int8
DataPool(g1, g2, fl) ==
  {Pixel(g1, d, 0) : d \in {R(-1), R(1), R(10)}}
  \cup {Pixel(g2, R(10), 0)}
  \cup (IF fl.mask THEN {Pixel(g1, R(-1), 1), Pixel(g1, R(10), 256)} ELSE {})

Calls1D ==
  {Args("1D", n, 3, 1, r[1], r[2], NoDummy, NoFlags, r[3], GeomPool(r[4])) :
     n \in 1..MaxPixels,
     r \in {<< <<>>, <<>>, Ext(0, 4, 0, 2), Geoms1D >>,
            << <<R(0), R(4)>>, <<>>, NoExt, Geoms1DOdd >>,
            << <<>>, <<>>, Ext(-4, 0, 0, 1), Geoms1DNeg >>,
            << <<R(0), R(2)>>, <<>>, NoExt, {S1, S3} >>,
            << <<R(2), R(4)>>, <<>>, NoExt, {S1, S2} >>,
            << <<R(0), R(4)>>, <<R(0), R(1)>>, NoExt, Geoms1DChi >>}}
  \cup
  {Args("1D", n, 3, 1, <<R(0), R(4)>>, <<>>, c[1], c[2], NoExt, DataPool(S1, S2, c[2])) :
     n \in 1..MaxPixels, c \in DataConfigs}

Calls2D ==
  {Args("2D", n, 2, 2, r[1], r[2], NoDummy, NoFlags, r[3], GeomPool(r[4])) :
     n \in 1..MaxPixels,
     r \in {<< <<R(0), R(8)>>, <<R(0), R(8)>>, NoExt, Geoms2D >>,
            << <<R(0), R(8)>>, <<R(0), R(8)>>, NoExt, Geoms2DGeneral >>,
            << <<R(0), R(8)>>, <<R(0), R(8)>>, NoExt, Geoms2DOdd >>,
            << <<R(0), R(8)>>, <<R(0), R(8)>>, NoExt, Geoms2DEdge >>,
            << <<>>, <<>>, Ext(0, 8, 0, 8), Geoms2DDerived >>,
            << <<R(0), R(8)>>, <<R(-4), R(4)>>, NoExt, Geoms2DWrap >>}}
  \cup
  {Args("2D", n, 2, 3, <<R(0), R(8)>>, <<FNeg(pi), pi>>, NoDummy, NoFlags, NoExt,
        GeomPool(Geoms2DWrap3)) :
     n \in 1..MaxPixels}
  \cup
  {Args("2D", SizeFor2, 2, 2, <<R(0), R(8)>>, <<R(0), R(8)>>, NoDummy,
        MaskOnly, NoExt, GeomPool(Geoms2DFor2)),
   Args("2D", SizeFor3, 3, 3, <<R(0), R(12)>>, <<R(0), R(12)>>, NoDummy,
        MaskOnly, NoExt, GeomPool(Geoms2DFor3))}
  \cup
  {Args("2D", n, 2, 2, <<R(0), R(8)>>, <<R(0), R(8)>>, c[1], c[2], NoExt,
        DataPool(T1, T3, c[2])) :
     n \in 1..MaxPixels, c \in DataConfigs}

\* calls with a pos of another shape, an optional array of another size,
\* or a bin count that is not positive
BaseCall(op) ==
  Args(op, 1, 2, IF op = "2D" THEN 2 ELSE 1, <<R(0), R(8)>>,
       IF op = "2D" THEN <<R(0), R(8)>> ELSE <<>>, NoDummy, AllFlags, NoExt,
       GeomPool({T1, T2}))
CallsMalformed ==
  UNION {
    {[BaseCall(op) EXCEPT !.pos_shape = sh] :
       sh \in {<<1, 4>>, <<2, 4, 2>>, <<1, 3, 2>>, <<1, 4, 3>>, <<1, 1, 4, 2>>,
               <<1, 1, 2, 4>>, <<1, 2, 2, 2>>, <<1, 1, 3, 2>>}}
    \cup {[BaseCall(op) EXCEPT !.mask_size = 2], [BaseCall(op) EXCEPT !.dark_size = 2],
          [BaseCall(op) EXCEPT !.flat_size = 0],
          [BaseCall(op) EXCEPT !.polarization_size = 2],
          [BaseCall(op) EXCEPT !.solidangle_size = 2]}
    \cup {Args(op, 1, b[1], b[2], <<R(0), R(8)>>,
               IF op = "2D" THEN <<R(0), R(8)>> ELSE <<>>, NoDummy, NoFlags, NoExt,
               GeomPool({T1, T2})) :
            b \in IF op = "2D" THEN {<<0, 2>>, <<2, 0>>, <<-1, -1>>}
                  ELSE {<<0, 1>>, <<-1, 1>>, <<1, 1>>}}
    : op \in {"1D", "2D"}}

\* calls on no pixels (weights.size = 0, pos of shape (0, 4, 2)), with and
\* without range overrides, and calls with a pos0Range of one element
CallsEmpty ==
  UNION {
    {Args(op, 0, 3, IF op = "2D" THEN 3 ELSE 1, r[1], r[2], dm, NoFlags, NoExt, {}) :
       r \in {<< <<>>, <<>> >>, << <<R(0), R(8)>>, <<>> >>,
              << <<R(0), R(8)>>, <<R(0), R(8)>> >>},
       dm \in {NoDummy, Dummy(-1)}}
    \cup
    {Args(op, n, 2, IF op = "2D" THEN 2 ELSE 1, <<R(2)>>, <<>>, NoDummy, NoFlags,
          Ext(0, 8, 0, 8), GeomPool({T8})) : n \in 1..MaxPixels}
    : op \in {"1D", "2D"}}

\* pos1 values (units of pi/4) below, at and above -pi/2 and +pi/2, and the
\* pixels of one pos0 bin with every combination of them at the four corners
Chi == {Q(-7, 2), Q(-5, 2), R(-2), R(2), Q(5, 2), Q(7, 2)}
GeomsChi ==
  {<<<<H(0), a>>, <<H(1), b>>, <<H(1), c>>, <<H(0), d>>>> : a, b, c, d \in Chi}
CallsWrap ==
  {Args("2D", 1, 2, 3, <<R(0), R(8)>>, <<FNeg(pi), pi>>, NoDummy, NoFlags, NoExt,
        GeomPool(GeomsChi))}

\* the loads outside the scratch find a byte of this set
Garbage == {0, 1}

(***************************************************************************)
(* State                                                                   *)
(***************************************************************************)
VARIABLES
  args,       \* the call (see Args); fixed during the run
  pc,         \* "start" (called), "run" (in the loops), "done" (returned),
              \* "failed" (exception raised), "crashed" (killed by a wild store)
  idx,        \* pixel loop index
  mi,         \* final loop index (i, or i*all_bins1 + j)
  outCount, outData, outMerge,
  edges0,     \* bin centres along pos0: outPos (1D), edges0 (2D); <<>> until set
  edges1,     \* bin centres along pos1 (2D)
  is_inside,  \* the 2D scratch, by byte offset
  needs,      \* extremes of pos (args.ext) that no pixel read so far attains
  hist,       \* history: the pixel read by the last iteration (pix), the byte
              \* its loads outside the scratch found (g), what the iteration
              \* did (res: path, data, dep, wr, rd), the number of pixels
              \* accepted so far, the sum of their corrected intensities, and
              \* whether all of them lay inside the output range
  ub          \* kinds of out-of-buffer accesses made so far

vars == <<args, pc, idx, mi, outCount, outData, outMerge, edges0, edges1, is_inside,
          needs, hist, ub>>

Paths == {"single", "split", "column", "row", "general"}

Derived(a) ==
  (IF Len(a.pos0Range) > 1 THEN {} ELSE {"min0", "max0"})
  \cup (IF a.op = "2D" /\ Len(a.pos1Range) <= 1 THEN {"min1", "max1"} ELSE {})

Coord(p, axis) == {p.pos[c][axis] : c \in 1..4}
InExt(a, p) ==
  /\ "min0" \in Derived(a) =>
       \A x \in Coord(p, 1) : FLe(a.ext.min0, x) /\ FLe(x, a.ext.max0)
  /\ "min1" \in Derived(a) =>
       \A y \in Coord(p, 2) : FLe(a.ext.min1, y) /\ FLe(y, a.ext.max1)
Meets(a, p) ==
  {e \in Derived(a) :
     \/ e = "min0" /\ a.ext.min0 \in Coord(p, 1)
     \/ e = "max0" /\ a.ext.max0 \in Coord(p, 1)
     \/ e = "min1" /\ a.ext.min1 \in Coord(p, 2)
     \/ e = "max1" /\ a.ext.max1 \in Coord(p, 2)}
\* the extremes still owed can be attained by a pixel yet to come
CanMeet(a, nd, left) ==
  nd = {} \/ (left >= 1 /\ \E q \in a.pool : InExt(a, q) /\ nd \subseteq Meets(a, q))

Filler(a) == LET q == CHOOSE q \in a.pool : TRUE IN Pixel(q.pos, q.data, 1)

\* the values pos[idx], weights[idx], mask[idx] may hold
Draw(a, i, nd) ==
  IF i < a.size - MaxPixels THEN {Filler(a)}
  ELSE {p \in a.pool : InExt(a, p) /\ CanMeet(a, nd \ Meets(a, p), a.size - i - 1)}

\* every corner of the pixel lies in [pos0_min, pos0_max) and, in 2D, in
\* [pos1_min, pos1_max)
InRange(a, p) ==
  /\ \A x \in Coord(p, 1) : FLe(pos0_min(a), x) /\ FLt(x, pos0_max(a))
  /\ a.op = "2D" => \A y \in Coord(p, 2) : FLe(pos1_min(a), y) /\ FLt(y, pos1_max(a))

\* the state on entry of a call drawn from calls
InitOf(calls) ==
  /\ args \in calls
  /\ pc = "start"
  /\ idx = 0
  /\ mi = 0
  /\ outCount = [k \in Cells(args) |-> Zero]
  /\ outData = [k \in Cells(args) |-> Zero]
  /\ outMerge = [k \in Cells(args) |-> Zero]
  /\ edges0 = <<>>
  /\ edges1 = <<>>
  /\ is_inside = IF args.op = "2D" THEN [o \in 0..(dim0(args) * dim1(args) - 1) |-> 0]
                 ELSE <<>>
  /\ needs = Derived(args)
  /\ hist = [pix |-> <<>>, g |-> 0, res |-> Skipped("none"),
             n_accepted |-> 0, sum_data |-> Zero, all_in |-> TRUE]
  /\ ub = {}

Init == InitOf(Calls1D \cup Calls2D \cup CallsMalformed \cup CallsEmpty)

\* pos.reshape((-1, 4, 2)) of an array of more than 3 dimensions: the shape
\* of the view, <<>> when the number of elements is not a multiple of 8
\* (ValueError)
RECURSIVE Elements(_, _)
Elements(shape, n) == IF n > Len(shape) THEN 1 ELSE shape[n] * Elements(shape, n + 1)
PosView(shape) ==
  IF Len(shape) <= 3 THEN shape
  ELSE IF Elements(shape, 1) % 8 = 0 THEN <<Elements(shape, 1) \div 8, 4, 2>>
  ELSE <<>>

\* lines 192-198, 402-408: the asserts on pos (pos.shape[n] of a missing
\* dimension raises IndexError)
PosAccepted(a) ==
  /\ Len(PosView(a.pos_shape)) = 3
  /\ PosView(a.pos_shape) = <<a.size, 4, 2>>

\* line 199 (size_t bins: a negative value raises OverflowError at the call)
BinsAccepted(a) == a.op = "1D" => a.bins[1] > 1

\* lines 253-272, 479-498: the asserts on the optional arrays
SizesAccepted(a) ==
  /\ a.has_mask => a.mask_size = a.size
  /\ a.has_dark => a.dark_size = a.size
  /\ a.has_flat => a.flat_size = a.size
  /\ a.has_polarization => a.polarization_size = a.size
  /\ a.has_solidangle => a.solidangle_size = a.size

\* lines 221-234, 444-456: pos[:, :, 0].min() of an array without elements
\* raises ValueError; so does pos[:, :, 1].min()
ExtremesAccepted(a) ==
  a.size = 0 => (Len(a.pos0Range) > 1 /\ Len(a.pos1Range) > 1)

\* numpy.linspace(start, stop, num): start + k * (stop - start) / (num - 1)
linspace(start, stop, num) ==
  [k \in 1..num |->
     IF num = 1 THEN start
     ELSE FAdd(start, FMul(R(k - 1), FDiv(FSub(stop, start), R(num - 1))))]

\* the prologue (lines 192-272, 401-498): the call enters the pixel loop
\* with zeroed arrays, or an exception leaves the function
Prologue ==
  /\ pc = "start"
  /\ IF PosAccepted(args) /\ BinsAccepted(args) /\ ExtremesAccepted(args)
        /\ SizesAccepted(args)
     THEN /\ pc' = "run"
          /\ edges0' = linspace(FAdd(pos0_min(args), FMul(Half, dpos(args))),
                                FSub(pos0_maxin(args), FMul(Half, dpos(args))),
                                args.all_bins0)
          /\ edges1' = IF args.op = "1D" THEN <<>>
                       ELSE linspace(FAdd(pos1_min(args), FMul(Half, delta1(args))),
                                     FSub(pos1_maxin(args), FMul(Half, delta1(args))),
                                     args.all_bins1)
     ELSE /\ pc' = "failed"
          /\ UNCHANGED <<edges0, edges1>>
  /\ UNCHANGED <<args, idx, mi, outCount, outData, outMerge, is_inside, needs, hist, ub>>

Iteration(p, g) ==
  IF args.op = "1D" THEN Pixel1D(args, p) ELSE Pixel2D(args, p, is_inside, g)

\* what the iteration on p may do: r0 is what it does when every load
\* outside the scratch finds 0
Outcomes(p, r0) ==
  {[g |-> 0, res |-> r0]}
  \cup (IF ScratchLoadsOutside(args, r0.rd) = {} THEN {}
        ELSE {[g |-> g, res |-> Iteration(p, g)] : g \in Garbage \ {0}})

\* one iteration of the pixel loop (lines 276-353, 501-785)
PixelStep ==
  /\ pc = "run"
  /\ idx < args.size
  /\ \E p \in Draw(args, idx, needs) :
     \E o \in Outcomes(p, Iteration(p, 0)) :
       /\ hist' = [pix |-> <<p>>, g |-> o.g, res |-> o.res,
                   n_accepted |-> hist.n_accepted + (IF o.res.path \in Paths THEN 1 ELSE 0),
                   sum_data |-> IF o.res.path \in Paths
                                THEN FAdd(hist.sum_data, o.res.data)
                                ELSE hist.sum_data,
                   all_in |-> hist.all_in /\ (o.res.path \in Paths => InRange(args, p))]
       /\ ub' = ub
                \cup (IF StoresOutside(args, o.res) # {} THEN {"store"} ELSE {})
                \cup (IF ScratchStoresOutside(args, o.res) # {}
                      THEN {"scratch_store"} ELSE {})
                \cup (IF ScratchLoadsOutside(args, o.res.rd) # {}
                      THEN {"scratch_load"} ELSE {})
       /\ needs' = needs \ Meets(args, p)
       \* a store outside its buffer hits unowned memory: the run goes on
       \* with its own buffers intact, or the process is killed
       /\ \E crash \in (IF StoresOutside(args, o.res) # {}
                           \/ ScratchStoresOutside(args, o.res) # {}
                        THEN {FALSE, TRUE} ELSE {FALSE}) :
            IF crash
            THEN /\ pc' = "crashed"
                 /\ UNCHANGED <<idx, outCount, outData, is_inside>>
            ELSE /\ pc' = pc
                 /\ idx' = idx + 1
                 /\ outCount' = AddCount(args, outCount, o.res.dep, 1)
                 /\ outData' = AddData(args, outData, o.res.dep, o.res.data, 1)
                 /\ is_inside' = ScratchStore(args, is_inside, o.res.wr, 1)
  /\ UNCHANGED <<args, mi, outMerge, edges0, edges1>>

\* the final loop entered while pixels remain
MergeStep_early ==
  /\ pc = "run"
  /\ idx <= args.size
  /\ mi < args.all_bins0 * args.all_bins1
  /\ LET k == <<mi \div args.all_bins1, mi % args.all_bins1>>
     IN outMerge' = [outMerge EXCEPT ![k] = Merge(outCount[k], outData[k], cdummy(args))]
  /\ mi' = mi + 1
  /\ hist' = [hist EXCEPT !.pix = <<>>, !.g = 0, !.res = Skipped("none")]
  /\ UNCHANGED <<args, pc, idx, outCount, outData, edges0, edges1, is_inside, needs, ub>>

\* one iteration of the final loop (lines 355-359, 786-791)
MergeStep ==
  /\ pc = "run"
  /\ idx = args.size
  /\ mi < args.all_bins0 * args.all_bins1
  /\ LET k == <<mi \div args.all_bins1, mi % args.all_bins1>>
     IN outMerge' = [outMerge EXCEPT ![k] = Merge(outCount[k], outData[k], cdummy(args))]
  /\ mi' = mi + 1
  /\ hist' = [hist EXCEPT !.pix = <<>>, !.g = 0, !.res = Skipped("none")]
  /\ UNCHANGED <<args, pc, idx, outCount, outData, edges0, edges1, is_inside, needs, ub>>

\* return outPos, outMerge, outData, outCount (lines 362, 795)
Return ==
  /\ pc = "run"
  /\ idx = args.size
  /\ mi = args.all_bins0 * args.all_bins1
  /\ pc' = "done"
  /\ UNCHANGED <<args, idx, mi, outCount, outData, outMerge, edges0, edges1, is_inside,
                 needs, hist, ub>>

Next == Prologue \/ PixelStep \/ MergeStep \/ Return

Spec == Init /\ [][Next]_vars

\* The position of a run, and the move to the next statement: out of the
\* prologue, to the next pixel, to the next bin of the final loop, to the
\* return.  Every step of Next is such a move.
Position == <<pc, idx, mi>>
Advance ==
  \/ /\ pc = "start"
     /\ pc' \in {"run", "failed"}
     /\ UNCHANGED <<idx, mi>>
  \/ /\ pc = "run" /\ idx < args.size
     /\ \/ pc' = "run" /\ idx' = idx + 1
        \/ pc' = "crashed" /\ idx' = idx
     /\ mi' = mi
  \/ /\ pc = "run" /\ idx = args.size /\ mi < args.all_bins0 * args.all_bins1
     /\ mi' = mi + 1
     /\ UNCHANGED <<pc, idx>>
  \/ /\ pc = "run" /\ idx = args.size /\ mi = args.all_bins0 * args.all_bins1
     /\ pc' = "done"
     /\ UNCHANGED <<idx, mi>>

\* The statements of a call run one after the other with nothing to wait
\* for (no lock, no input, nogil): a run that can move on does
FairSpec == Init /\ [][Next]_vars /\ WF_Position(Advance)

\* One iteration of the pixel loop as a function of the call and the pixel:
\* every call, run up to the first pixel that is not a masked filler
FirstPixel ==
  /\ idx = 0 \/ idx <= args.size - MaxPixels
  /\ PixelStep

NextPixel == Prologue \/ FirstPixel

SpecPixel == Init /\ [][NextPixel]_vars

\* The first iteration of fullSplit2D over (-pi, pi) on every combination
\* of pos1 values at the corners
SpecWrap == InitOf(CallsWrap) /\ [][NextPixel]_vars

(***************************************************************************)
(* Reference notions for the properties below, independent of the code:    *)
(* areas by triangle fan, half-plane clipping with closed half-planes,     *)
(* the correction formula as one quotient, the dummy rule, sums over an    *)
(* output array.                                                           *)
(***************************************************************************)
RefCross(O, A, B) ==
  FSub(FMul(FSub(A[1], O[1]), FSub(B[2], O[2])), FMul(FSub(A[2], O[2]), FSub(B[1], O[1])))

RefSign(x) == IF FGt(x, Zero) THEN 1 ELSE IF FLt(x, Zero) THEN -1 ELSE 0

RECURSIVE RefFan(_, _)
RefFan(poly, k) ==
  IF k + 1 > Len(poly) THEN Zero
  ELSE FAdd(RefCross(poly[1], poly[k], poly[k + 1]), RefFan(poly, k + 1))

RefArea(poly) == IF Len(poly) < 3 THEN Zero ELSE FMul(Half, FAbs(RefFan(poly, 2)))

RefIn(pt, axis, t, above) == IF above THEN FGe(pt[axis], t) ELSE FLe(pt[axis], t)

\* the point of segment SE whose coordinate along axis is t
RefAt(S, E, axis, t) ==
  IF axis = 1
  THEN <<t, FAdd(S[2], FDiv(FMul(FSub(E[2], S[2]), FSub(t, S[1])), FSub(E[1], S[1])))>>
  ELSE <<FAdd(S[1], FDiv(FMul(FSub(E[1], S[1]), FSub(t, S[2])), FSub(E[2], S[2]))), t>>

RefEdge(S, E, axis, t, above) ==
  IF RefIn(E, axis, t, above)
  THEN (IF RefIn(S, axis, t, above) THEN <<E>> ELSE <<RefAt(S, E, axis, t), E>>)
  ELSE (IF RefIn(S, axis, t, above) THEN <<RefAt(S, E, axis, t)>> ELSE <<>>)

RECURSIVE RefClip(_, _, _, _, _)
RefClip(poly, k, axis, t, above) ==
  IF k > Len(poly) THEN <<>>
  ELSE RefEdge(poly[IF k = 1 THEN Len(poly) ELSE k - 1], poly[k], axis, t, above)
       \o RefClip(poly, k + 1, axis, t, above)

RefBand(poly, axis, k) ==
  RefClip(RefClip(poly, 1, axis, R(k), TRUE), 1, axis, R(k + 1), FALSE)

\* area of quad inside the column [k, k+1] and inside the cell [i, i+1] x [j, j+1]
RefColumn(quad, k) == RefArea(RefBand(quad, 1, k))
RefCell(quad, i, j) == RefArea(RefBand(RefBand(quad, 1, i), 2, j))

RefConvex(q) ==
  \/ \A n \in 1..4 : RefSign(RefCross(q[n], q[(n % 4) + 1], q[((n + 1) % 4) + 1])) >= 0
  \/ \A n \in 1..4 : RefSign(RefCross(q[n], q[(n % 4) + 1], q[((n + 1) % 4) + 1])) <= 0

\* the point (x, y) lies strictly inside the convex quadrilateral q
RefInside(q, x, y) ==
  \/ \A n \in 1..4 : RefSign(RefCross(q[n], q[(n % 4) + 1], <<R(x), R(y)>>)) > 0
  \/ \A n \in 1..4 : RefSign(RefCross(q[n], q[(n % 4) + 1], <<R(x), R(y)>>)) < 0

\* the pixel in bin coordinates
Quad1D(a, p) ==
  [n \in 1..4 |-> <<FDiv(FSub(p.pos[n][1], pos0_min(a)), dpos(a)), p.pos[n][2]>>]
Quad2D(a, p) ==
  [n \in 1..4 |-> <<FDiv(FSub(p.pos[n][1], pos0_min(a)), dpos(a)),
                    FDiv(FSub(p.pos[n][2], pos1_min(a)), delta1(a))>>]

\* (I - dark) / (flat * polarization * solidangle) over the corrections present
RefCorrected(a, p) ==
  FDiv(FSub(p.data, IF a.has_dark THEN p.dark ELSE Zero),
       FMul(FMul(IF a.has_flat THEN p.flat ELSE One,
                 IF a.has_polarization THEN p.polarization ELSE One),
            IF a.has_solidangle THEN p.solidangle ELSE One))

\* the dummy rule on the intensity I
RefDummy(a, I) ==
  /\ Len(a.dummy) > 0
  /\ \/ (Len(a.delta_dummy) = 0 \/ a.delta_dummy = <<Zero>>) /\ I = a.dummy[1]
     \/ /\ Len(a.delta_dummy) > 0
        /\ FGt(a.delta_dummy[1], Zero)
        /\ FLe(FAbs(FSub(I, a.dummy[1])), a.delta_dummy[1])

\* x > 1e-10: n/d > 10^-10 iff d < n * 10^10 iff floor(d / 10^5) < n * 10^5
RefAboveEpsilon(x) ==
  /\ x # NaN
  /\ x[1] > 0
  /\ (x[2] = 0 \/ x[1] >= 20000 \/ x[2] \div 100000 < x[1] * 100000)

RECURSIVE SumCells(_, _, _)
SumCells(arr, a, n) ==
  IF n >= a.all_bins0 * a.all_bins1 THEN Zero
  ELSE FAdd(arr[<<n \div a.all_bins1, n % a.all_bins1>>], SumCells(arr, a, n + 1))

\* the sum of the weights dep stores to cell c
RECURSIVE DepWeight(_, _, _)
DepWeight(dep, c, n) ==
  IF n > Len(dep) THEN Zero
  ELSE FAdd(IF dep[n].k = c THEN dep[n].w ELSE Zero, DepWeight(dep, c, n + 1))

\* the step is an iteration of the pixel loop
LoopStep == idx' # idx \/ pc' = "crashed"

(***************************************************************************)
(* C1.  fullSplit1D: an accepted pixel that is a convex quadrilateral of   *)
(* positive area, lies inside the output range and spans more than one     *)
(* bin adds to outCount[k], for every bin k, the area of the quadrilateral *)
(* inside the column [k, k+1] divided by the quadrilateral's area, and to  *)
(* outData[k] that weight times the corrected intensity.                   *)
(***************************************************************************)
C1Case(h) ==
  /\ args.op = "1D"
  /\ h.res.path = "split"
  /\ InRange(args, h.pix[1])
  /\ RefConvex(Quad1D(args, h.pix[1]))
  /\ FGt(RefArea(Quad1D(args, h.pix[1])), Zero)

RefWeight1D(p, k) ==
  FDiv(RefColumn(Quad1D(args, p), k), RefArea(Quad1D(args, p)))

C2Case(h) ==
  /\ args.op = "2D"
  /\ h.res.path = "general"
  /\ InRange(args, h.pix[1])
  /\ RefConvex(Quad2D(args, h.pix[1]))
  /\ FGt(RefArea(Quad2D(args, h.pix[1])), Zero)

RefOverlap2D(p, c) == RefCell(Quad2D(args, p), c[1], c[2])

C2_GeneralCellsGetOverlap ==
  C2Case(hist) =>
    \A c \in Cells(args) :
      /\ FGt(RefOverlap2D(hist.pix[1], c), Zero) =>
           DepWeight(hist.res.dep, c, 1)
             = FDiv(RefOverlap2D(hist.pix[1], c), RefArea(Quad2D(args, hist.pix[1])))
      /\ (\A x \in {c[1], c[1] + 1}, y \in {c[2], c[2] + 1} :
            ~RefInside(Quad2D(args, hist.pix[1]), x, y)) =>
           RefOverlap2D(hist.pix[1], c) = Zero

(***************************************************************************)
(* C3.  After a run of either operation, for every bin k: outMerge[k] is   *)
(* outData[k] / outCount[k] if outCount[k] > 1e-10, and otherwise the      *)
(* dummy value, or 0 when no dummy was supplied.                           *)
(***************************************************************************)
C3_MergeRule ==
  pc = "done" =>
    \A k \in Cells(args) :
      outMerge[k] = IF RefAboveEpsilon(outCount[k]) THEN FDiv(outData[k], outCount[k])
                    ELSE IF Len(args.dummy) > 0 THEN args.dummy[1]
                    ELSE Zero

\* a returned run with a filled bin and, a dummy being supplied, an empty one
C3_Witness ==
  /\ pc = "done"
  /\ Len(args.dummy) > 0
  /\ \E k \in Cells(args) : outCount[k] = One /\ outData[k] = R(10) /\ outMerge[k] = R(10)
  /\ \E k \in Cells(args) : outCount[k] = Zero /\ outMerge[k] = R(-1)

(***************************************************************************)
(* C4.  fullSplit1D: if every accepted pixel so far lies within            *)
(* [pos0_min, pos0_max), the sum of outCount is the number of accepted     *)
(* pixels and the sum of outData is the sum of their corrected             *)
(* intensities.                                                            *)
(***************************************************************************)
C4_Conservation1D ==
  (args.op = "1D" /\ hist.all_in /\ pc # "crashed") =>
    /\ SumCells(outCount, args, 0) = R(hist.n_accepted)
    /\ SumCells(outData, args, 0) = hist.sum_data

(***************************************************************************)
(* C5.  fullSplit2D: if every accepted pixel so far lies inside the output *)
(* box, the sum of outCount is the number of accepted pixels and the sum   *)
(* of outData is the sum of their corrected intensities.                   *)
(***************************************************************************)
C5_Conservation2D ==
  (args.op = "2D" /\ hist.all_in /\ pc # "crashed") =>
    /\ SumCells(outCount, args, 0) = R(hist.n_accepted)
    /\ SumCells(outData, args, 0) = hist.sum_data

(***************************************************************************)
(* C6.  In every state of a run, for any input pixels, outCount[k] is      *)
(* finite and >= 0 and outData[k] is finite, for every bin k.              *)
(***************************************************************************)
C6_FiniteNonNegative ==
  \A k \in Cells(args) :
    /\ IsFinite(outCount[k])
    /\ FGe(outCount[k], Zero)
    /\ IsFinite(outData[k])

(***************************************************************************)
(* C7.  Every addition to outCount/outData targets a bin inside the output *)
(* array: 0 <= k0 < all_bins0 and 0 <= k1 < all_bins1 (all_bins1 = 1 in    *)
(* 1D).                                                                    *)
(***************************************************************************)
C7_StoresInsideArray ==
  \A n \in 1..Len(hist.res.dep) : hist.res.dep[n].k \in Cells(args)

(***************************************************************************)
(* C8.  In both operations the upper bound used for binning is strictly    *)
(* greater than the inclusive maximum (pos0_max > pos0_maxin, and in 2D    *)
(* pos1_max > pos1_maxin), so the maximum maps to a bin coordinate         *)
(* strictly below the number of bins.                                      *)
(***************************************************************************)
C8_UpperBoundAboveMaximum ==
  /\ FGt(pos0_max(args), pos0_maxin(args))
  /\ FLt(getBinNr(pos0_maxin(args), pos0_min(args), dpos(args)), R(args.all_bins0))
  /\ args.op = "2D" =>
       /\ FGt(pos1_max(args), pos1_maxin(args))
       /\ FLt(getBinNr(pos1_maxin(args), pos1_min(args), delta1(args)), R(args.all_bins1))

(***************************************************************************)
(* C9.  For every accepted pixel the intensity deposited is                *)
(* (I - dark) / (flat * polarization * solidangle) over the corrections    *)
(* present, negative values included; and the iteration does what the      *)
(* iteration of a call without correction arrays does on the weight        *)
(* corrected beforehand - provided the dummy rule does not take that       *)
(* corrected weight for a dummy value.                                     *)
(***************************************************************************)
Plain(a) ==
  [a EXCEPT !.has_dark = FALSE, !.has_flat = FALSE,
            !.has_polarization = FALSE, !.has_solidangle = FALSE]

PreCorrected(a, p) == [p EXCEPT !.data = RefCorrected(a, p)]

Rerun(a, p, g) ==
  IF a.op = "1D" THEN Pixel1D(a, p) ELSE Pixel2D(a, p, is_inside, g)

C9_CorrectedIntensity ==
  hist.res.path \in Paths =>
    /\ hist.res.data = RefCorrected(args, hist.pix[1])
    /\ ~RefDummy(args, RefCorrected(args, hist.pix[1])) =>
         Rerun(Plain(args), PreCorrected(args, hist.pix[1]), hist.g) = hist.res

\* all four corrections on the intensity 10: (10 - 12) / (2 * 4 * 5)
C9_Witness ==
  /\ hist.res.path \in Paths
  /\ args.has_dark /\ args.has_flat /\ args.has_polarization /\ args.has_solidangle
  /\ hist.res.data = Q(-1, 20)
  /\ \E k \in Cells(args) : FLt(outData[k], Zero)

\* C9 as stated, whatever the dummy rule makes of the corrected weight
C9_AsStated ==
  hist.res.path \in Paths =>
    /\ hist.res.data = RefCorrected(args, hist.pix[1])
    /\ Rerun(Plain(args), PreCorrected(args, hist.pix[1]), hist.g) = hist.res

(***************************************************************************)
(* C10.  A pixel is skipped for its intensity only if the dummy rule holds *)
(* of its raw intensity I (dummy supplied, and I = dummy when delta_dummy   *)
(* is 0 or absent, |I - dummy| <= delta_dummy when delta_dummy > 0), and   *)
(* every pixel of which the rule holds is skipped and changes neither      *)
(* outCount nor outData; without a dummy no pixel is skipped for its       *)
(* intensity.                                                              *)
(***************************************************************************)
C10_DummyRule ==
  [][LoopStep =>
       /\ hist'.res.path = "dummy" => RefDummy(args, hist'.pix[1].data)
       /\ RefDummy(args, hist'.pix[1].data) =>
            /\ hist'.res.path \in {"dummy", "masked"}
            /\ outCount' = outCount
            /\ outData' = outData]_vars

\* intensity 1 at distance delta_dummy = 2 from the dummy -1 is skipped after
\* a pixel was accepted, although corrections are present
C10_Witness ==
  /\ hist.res.path = "dummy"
  /\ hist.pix[1].data = One
  /\ args.delta_dummy = <<R(2)>>
  /\ args.has_dark
  /\ hist.n_accepted = 1

(***************************************************************************)
(* C11.  With a mask supplied, a pixel is skipped by the mask test only if *)
(* mask[p] is nonzero, and every pixel whose mask[p] is nonzero is skipped *)
(* and deposits nothing, whatever integer mask[p] is.                      *)
(***************************************************************************)
C11_MaskRule ==
  (args.has_mask /\ hist.pix # <<>>) =>
    /\ hist.res.path = "masked" => hist.pix[1].mask # 0
    /\ hist.pix[1].mask # 0 => hist.res.path \notin Paths

\* the pixel's pos1 extent lies entirely outside [pos1_min, pos1_max]
RefOutsidePos1(a, p) ==
  \/ \A y \in Coord(p, 2) : FLt(y, Min2(a.pos1Range[1], a.pos1Range[2]))
  \/ \A y \in Coord(p, 2) :
        FGt(y, FMul(Max2(a.pos1Range[1], a.pos1Range[2]), FAdd(One, eps(a))))

(***************************************************************************)
(* C12.  fullSplit1D with pos1Range given: a pixel whose pos1 extent        *)
(* [min1, max1] lies entirely outside [pos1_min, pos1_max] is discarded    *)
(* and contributes nothing to outCount or outData.                         *)
(***************************************************************************)
C12_Pos1RangeFilter ==
  (args.op = "1D" /\ Len(args.pos1Range) > 1 /\ hist.pix # <<>>
     /\ RefOutsidePos1(args, hist.pix[1])) =>
    /\ hist.res.path \notin Paths
    /\ hist.res.dep = <<>>

\* the output cells the four corners of the pixel fall in
RefCornerCells(a, p) ==
  IF a.op = "1D" THEN {<<Floor(Quad1D(a, p)[n][1]), 0>> : n \in 1..4}
  ELSE {<<Floor(Quad2D(a, p)[n][1]), Floor(Quad2D(a, p)[n][2])>> : n \in 1..4}

C13Case(h) ==
  /\ h.pix # <<>>
  /\ h.res.path \in Paths
  /\ \E c \in Cells(args) : RefCornerCells(args, h.pix[1]) = {c}

(***************************************************************************)
(* C13.  In both operations an accepted pixel whose four corners fall in   *)
(* the same bin of the output array adds exactly 1 to outCount and exactly *)
(* its corrected intensity to outData of that bin, and changes no other    *)
(* bin.                                                                    *)
(***************************************************************************)
C13_SingleBinDeposit ==
  [][(LoopStep /\ C13Case(hist')) =>
       \A c \in RefCornerCells(args, hist'.pix[1]) :
         /\ outCount' = [outCount EXCEPT ![c] = FAdd(@, One)]
         /\ outData' = [outData EXCEPT ![c] = FAdd(@, RefCorrected(args, hist'.pix[1]))]]_vars

\* fullSplit2D with all four corrections: the second pixel of intensity 10
\* in the same cell, 2 * (10 - 12) / (2 * 4 * 5)
C13_Witness ==
  /\ C13Case(hist)
  /\ args.op = "2D"
  /\ args.has_solidangle
  /\ \E c \in Cells(args) :
       /\ outCount[c] = R(2)
       /\ outData[c] = Q(-1, 10)
       /\ \A k \in Cells(args) \ {c} : outCount[k] = Zero /\ outData[k] = Zero

\* wrap_needed: two corners above +pi/2 and two below -pi/2
RefWrapNeeded(p) ==
  /\ Cardinality({n \in 1..4 : FGt(p.pos[n][2], FMul(pi, Half))}) = 2
  /\ Cardinality({n \in 1..4 : FLt(p.pos[n][2], FNeg(FMul(pi, Half)))}) = 2

C14Case(h) ==
  /\ args.op = "2D"
  /\ args.pos1Range = <<FNeg(pi), pi>>
  /\ args.all_bins1 >= 3
  /\ h.pix # <<>>
  /\ h.res.path \in Paths
  /\ RefWrapNeeded(h.pix[1])

(***************************************************************************)
(* C14.  fullSplit2D with pos1 range (-pi, pi) and B1 azimuthal bins: an   *)
(* accepted pixel for which wrap_needed holds has its whole contribution   *)
(* deposited in the azimuthal bins 0 and B1-1 of the output array, and     *)
(* nothing in the interior bins 1..B1-2.                                   *)
(***************************************************************************)
C14_WrapDepositsAtBothEnds ==
  [][(LoopStep /\ C14Case(hist')) =>
       /\ \A k \in Cells(args) :
            k[2] \in 1..(args.all_bins1 - 2) =>
              outCount'[k] = outCount[k] /\ outData'[k] = outData[k]
       /\ SumCells(outCount', args, 0) = FAdd(SumCells(outCount, args, 0), One)
       /\ SumCells(outData', args, 0)
            = FAdd(SumCells(outData, args, 0), RefCorrected(args, hist'.pix[1]))]_vars

\* the call of fullSplit1D with the same pos, weights, options and pos0Range
\* and bins = all_bins0
As1D(a) == [a EXCEPT !.op = "1D", !.bins = <<a.all_bins0, 1>>, !.all_bins1 = 1]

\* what the stores of one iteration add to zeroed outCount and outData
RefZeros(a) == [k \in Cells(a) |-> Zero]
RefCountAdded(a, res) == AddCount(a, RefZeros(a), res.dep, 1)
RefDataAdded(a, res) == AddData(a, RefZeros(a), res.dep, res.data, 1)

\* arr[k0, 0] + ... + arr[k0, all_bins1 - 1]
RECURSIVE RefRowSum(_, _, _, _)
RefRowSum(arr, a, k0, k1) ==
  IF k1 >= a.all_bins1 THEN Zero
  ELSE FAdd(arr[<<k0, k1>>], RefRowSum(arr, a, k0, k1 + 1))

(***************************************************************************)
(* C15.  For the same pos, weights, corrections and pos0Range, what a      *)
(* pixel adds to outCount and outData of fullSplit2D, summed over the pos1 *)
(* axis, is what it adds to outCount and outData of fullSplit1D with       *)
(* bins = all_bins0, for every bin of pos0.                                *)
(***************************************************************************)
C15_SumOverPos1Is1D ==
  (args.op = "2D" /\ args.all_bins0 > 1 /\ hist.pix # <<>> /\ pc # "crashed") =>
    \A k0 \in 0..(args.all_bins0 - 1) :
      /\ RefRowSum(RefCountAdded(args, hist.res), args, k0, 0)
           = RefCountAdded(As1D(args), Pixel1D(As1D(args), hist.pix[1]))[<<k0, 0>>]
      /\ RefRowSum(RefDataAdded(args, hist.res), args, k0, 0)
           = RefDataAdded(As1D(args), Pixel1D(As1D(args), hist.pix[1]))[<<k0, 0>>]

\* the call without a mask, and the pixel with its weight set to zero
Unmasked(a) == [a EXCEPT !.has_mask = FALSE]
Zeroed(p) == [p EXCEPT !.data = Zero]

(***************************************************************************)
(* C16.  For any inputs and enabled corrections, what a pixel adds to      *)
(* outData in a run with a mask is what it adds in the run without mask    *)
(* on the weights set to zero at the pixels whose mask is nonzero.         *)
(***************************************************************************)
C16_MaskIsZeroWeight ==
  (args.has_mask /\ hist.pix # <<>> /\ pc # "crashed") =>
    RefDataAdded(args, hist.res)
      = RefDataAdded(Unmasked(args),
                     Rerun(Unmasked(args),
                           IF hist.pix[1].mask # 0 THEN Zeroed(hist.pix[1]) ELSE hist.pix[1],
                           hist.g))

\* the pixel with another weight
Weighted(p, d) == [p EXCEPT !.data = d]
RefScalars == {R(2), R(-1)}
RefScalars2 == {R(3)}
RefWeights == {One}

\* alpha * x + beta * y in every bin
RefCombine(a, alpha, x, beta, y) ==
  [k \in Cells(a) |-> FAdd(FMul(alpha, x[k]), FMul(beta, y[k]))]

RefLinear(p) ==
  \A alpha \in RefScalars, beta \in RefScalars2, J \in RefWeights :
    RefDataAdded(args, Rerun(args, Weighted(p, FAdd(FMul(alpha, p.data), FMul(beta, J))),
                             hist.g))
      = RefCombine(args, alpha, RefDataAdded(args, hist.res),
                   beta, RefDataAdded(args, Rerun(args, Weighted(p, J), hist.g)))

(***************************************************************************)
(* C17.  For intensities I and J over the same geometry and options, and   *)
(* scalars alpha and beta, what a pixel adds to outData in the run on      *)
(* alpha*I + beta*J is alpha times what it adds in the run on I plus beta  *)
(* times what it adds in the run on J, in every bin - provided the options *)
(* include neither a dark array nor a dummy value.                         *)
(***************************************************************************)
C17_LinearInIntensity ==
  (hist.pix # <<>> /\ pc # "crashed" /\ ~args.has_dark /\ Len(args.dummy) = 0) =>
    RefLinear(hist.pix[1])

\* an accepted pixel of negative intensity with flat and solid angle
\* corrections: -1 / (2 * 5)
C17_Witness ==
  /\ hist.pix # <<>>
  /\ pc # "crashed"
  /\ hist.res.path \in Paths
  /\ ~args.has_dark /\ Len(args.dummy) = 0
  /\ args.has_flat /\ args.has_solidangle
  /\ hist.res.data = Q(-1, 10)
  /\ \E k \in Cells(args) : outData[k] = Q(-1, 10)

\* C17 as stated, for any options
C17_AsStated ==
  (hist.pix # <<>> /\ pc # "crashed") => RefLinear(hist.pix[1])

(***************************************************************************)
(* C18.  Reversing the corner order of a pixel (A,B,C,D -> D,C,B,A) leaves *)
(* what it adds to outCount and outData unchanged in every bin, in both    *)
(* operations and on all paths.                                            *)
(***************************************************************************)
C18_OrientationIndependent ==
  (hist.pix # <<>> /\ pc # "crashed") =>
    /\ RefCountAdded(args, Rerun(args, [hist.pix[1] EXCEPT !.pos = Reversed(@)], hist.g))
         = RefCountAdded(args, hist.res)
    /\ RefDataAdded(args, Rerun(args, [hist.pix[1] EXCEPT !.pos = Reversed(@)], hist.g))
         = RefDataAdded(args, hist.res)

\* the reversed square on the general path, deposited over four cells
C18_Witness ==
  /\ hist.pix # <<>>
  /\ pc # "crashed"
  /\ hist.pix[1].pos = Reversed(T4)
  /\ hist.res.path = "general"
  /\ \A c \in Cells(args) : RefCountAdded(args, hist.res)[c] = Q(1, 4)

\* pos is N x 4 x 2, or has more dimensions of which the last two are 4 and
\* 2, N = weights.size being the product of the others
RefPosShaped(a) ==
  /\ Len(a.pos_shape) >= 3
  /\ a.pos_shape[Len(a.pos_shape) - 1] = 4
  /\ a.pos_shape[Len(a.pos_shape)] = 2
  /\ Elements(SubSeq(a.pos_shape, 1, Len(a.pos_shape) - 2), 1) = a.size

\* every optional array supplied has N elements
RefSized(a) ==
  /\ a.has_mask => a.mask_size = a.size
  /\ a.has_dark => a.dark_size = a.size
  /\ a.has_flat => a.flat_size = a.size
  /\ a.has_polarization => a.polarization_size = a.size
  /\ a.has_solidangle => a.solidangle_size = a.size

\* the call has not entered the pixel loop and never will
RefRejected ==
  /\ pc \in {"start", "failed"}
  /\ idx = 0
  /\ hist.pix = <<>>

(***************************************************************************)
(* C19.  If pos is not of shape (N, 4, 2), or the length of weights, mask, *)
(* dark, flat, polarization or solidangle differs from N, the call fails   *)
(* before any pixel is accumulated and returns no outputs.                 *)
(***************************************************************************)
C19_ShapeMismatchFails ==
  (~RefPosShaped(args) \/ ~RefSized(args)) => RefRejected

(***************************************************************************)
(* C20.  A bin count <= 0 (bins in fullSplit1D, either of bins0 and bins1  *)
(* in fullSplit2D) makes the call fail before any accumulation: the call  *)
(* never runs with another value in its place.                             *)
(***************************************************************************)
C20_NonPositiveBinsFail ==
  (args.bins[1] <= 0 \/ (args.op = "2D" /\ args.bins[2] <= 0)) => RefRejected

(***************************************************************************)
(* C21.  Every positive bin count is accepted: a well-formed call on at    *)
(* least one pixel with bins >= 1 (fullSplit1D), or bins0 >= 1 and         *)
(* bins1 >= 1 (fullSplit2D), does not fail, and its outputs have exactly   *)
(* that many bins.                                                         *)
(***************************************************************************)
C21_PositiveBinsAccepted ==
  (/\ RefPosShaped(args) /\ RefSized(args)
   /\ args.size >= 1
   /\ args.bins[1] >= 1 /\ args.bins[2] >= 1) =>
    /\ pc # "failed"
    /\ pc \in {"run", "done"} =>
         /\ DOMAIN outCount = (0..(args.bins[1] - 1)) \X (0..(args.bins[2] - 1))
         /\ DOMAIN outData = DOMAIN outCount
         /\ DOMAIN outMerge = DOMAIN outCount
         /\ Len(edges0) = args.bins[1]
         /\ args.op = "2D" => Len(edges1) = args.bins[2]

(***************************************************************************)
(* C22.  A call whose pos0Range is provided with fewer than 2 elements     *)
(* fails before any work: it never runs on the range derived from pos.     *)
(***************************************************************************)
C22_ShortRangeFails ==
  Len(args.pos0Range) = 1 => RefRejected

\* the four corners lie on one line: the quadrilateral has zero area
RefDegenerate(q) ==
  \A i, j, k \in 1..4 : RefCross(q[i], q[j], q[k]) = Zero

(***************************************************************************)
(* C23.  A pixel whose quadrilateral has zero area adds nothing to         *)
(* outCount or outData, in either operation and whichever path its         *)
(* bounding box selects.                                                   *)
(***************************************************************************)
C23_DegenerateAddsNothing ==
  (hist.pix # <<>> /\ pc # "crashed" /\ RefDegenerate(hist.pix[1].pos)) =>
    /\ RefCountAdded(args, hist.res) = RefZeros(args)
    /\ RefDataAdded(args, hist.res) = RefZeros(args)

(***************************************************************************)
(* C24.  A call on zero pixels with no range override and dummy = d        *)
(* completes without error: it does not fail, and when it returns,         *)
(* outCount and outData are zero and outMerge is d in every bin.           *)
(***************************************************************************)
C24_EmptyRunFillsDummy ==
  (/\ args.size = 0
   /\ args.pos0Range = <<>> /\ args.pos1Range = <<>>
   /\ Len(args.dummy) = 1) =>
    /\ pc # "failed"
    /\ pc = "done" =>
         \A k \in Cells(args) :
           outCount[k] = Zero /\ outData[k] = Zero /\ outMerge[k] = args.dummy[1]

\* centre of bin k of width d on an axis starting at lo
RefCentre(lo, d, k) == FAdd(lo, FMul(FAdd(R(k), Half), d))

(***************************************************************************)
(* C25.  The returned bin centres are outPos[k] = pos0_min + (k + 0.5)*d0  *)
(* (1D), edges0[k] = pos0_min + (k + 0.5)*d0 and edges1[k] = pos1_min +    *)
(* (k + 0.5)*d1 (2D), d0 and d1 being the bin widths dpos/delta0 and       *)
(* delta1 that map corners to bins: consecutive centres are one bin width  *)
(* apart.                                                                  *)
(***************************************************************************)
C25_BinCentres ==
  pc \in {"run", "done"} =>
    /\ \A k \in 0..(args.all_bins0 - 1) :
         edges0[k + 1] = RefCentre(pos0_min(args), dpos(args), k)
    /\ \A k \in 1..(args.all_bins0 - 1) :
         FSub(edges0[k + 1], edges0[k]) = dpos(args)
    /\ args.op = "2D" =>
         /\ \A k \in 0..(args.all_bins1 - 1) :
              edges1[k + 1] = RefCentre(pos1_min(args), delta1(args), k)
         /\ \A k \in 1..(args.all_bins1 - 1) :
              FSub(edges1[k + 1], edges1[k]) = delta1(args)

\* is_inside as allocated
RefFreshScratch(a) == [o \in 0..(dim0(a) * dim1(a) - 1) |-> 0]

(***************************************************************************)
(* C26.  fullSplit2D: what an iteration adds to outCount and outData       *)
(* depends only on its own pixel and the binning, never on the pixels      *)
(* processed before it: it is what the iteration adds when is_inside is    *)
(* as allocated.                                                           *)
(***************************************************************************)
C26_PixelIndependent ==
  [][(LoopStep /\ args.op = "2D" /\ pc' # "crashed") =>
       /\ RefCountAdded(args, hist'.res)
            = RefCountAdded(args, Pixel2D(args, hist'.pix[1], RefFreshScratch(args),
                                          hist'.g))
       /\ RefDataAdded(args, hist'.res)
            = RefDataAdded(args, Pixel2D(args, hist'.pix[1], RefFreshScratch(args),
                                         hist'.g))]_vars

\* one step of a run in the order the loops prescribe
RefOrdered ==
  /\ (pc = "start" /\ pc' = "run") =>
       /\ idx' = 0 /\ mi' = 0
       /\ outCount' = RefZeros(args) /\ outData' = RefZeros(args)
  /\ idx' # idx =>
       /\ idx' = idx + 1 /\ idx < args.size
       /\ mi = 0 /\ outMerge' = outMerge
  /\ (outCount' # outCount \/ outData' # outData) => idx' = idx + 1
  /\ mi' # mi =>
       /\ mi' = mi + 1 /\ mi < args.all_bins0 * args.all_bins1
       /\ idx = args.size /\ idx' = idx
  /\ outMerge' # outMerge =>
       /\ mi' = mi + 1
       /\ \A k \in Cells(args) : Flat(args, k) # mi => outMerge'[k] = outMerge[k]
  /\ pc' = "done" =>
       /\ idx' = args.size
       /\ mi' = args.all_bins0 * args.all_bins1

(***************************************************************************)
(* C27.  In both operations every run terminates; the accumulators start   *)
(* at zero; the pixel indices are visited one by one in ascending order,   *)
(* all of 0..N-1 exactly once in a run that returns; outMerge is written   *)
(* only after the last pixel has been accumulated, one bin after the       *)
(* other, each bin once.                                                   *)
(***************************************************************************)
C27_SequentialRun ==
  /\ [][RefOrdered]_vars
  /\ []((pc = "run" /\ idx < args.size) => Draw(args, idx, needs) # {})
  /\ <>(pc \in {"done", "failed", "crashed"})

\* a run over two pixels has returned with a bin merged from both
C27_Witness ==
  /\ pc = "done"
  /\ args.size = 2
  /\ idx = 2
  /\ mi = args.all_bins0 * args.all_bins1
  /\ hist.n_accepted = 2
  /\ \E k \in Cells(args) : outCount[k] = R(2) /\ outMerge[k] = R(10)

\* pos1 of corner n as it enters the bin conversion
RefShifted(p, n) ==
  IF RefWrapNeeded(p) /\ FLt(p.pos[n][2], Zero)
  THEN FAdd(p.pos[n][2], FMul(R(2), pi))
  ELSE p.pos[n][2]

RefBin1(a, p, n) == FDiv(FSub(RefShifted(p, n), pos1_min(a)), delta1(a))

(***************************************************************************)
(* C28.  foo is true exactly when two of the four pos1 values are above    *)
(* +pi/2 and the other two below -pi/2.  When it is true, every corner     *)
(* with negative pos1 is shifted by 2*pi before the bin conversion and the *)
(* others are unchanged, so that the pixel spans less than half the axis   *)
(* in pos1; when it is false no corner is shifted.  The bins the pixel is  *)
(* deposited in are those of the shifted corners.                          *)
(***************************************************************************)
C28_WrapNeeded ==
  (hist.pix # <<>> /\ args.op = "2D") =>
    /\ foo(hist.pix[1].pos[1][2], hist.pix[1].pos[2][2],
           hist.pix[1].pos[3][2], hist.pix[1].pos[4][2])
         <=> RefWrapNeeded(hist.pix[1])
    /\ \A n \in 1..4 : Corners1(args, hist.pix[1])[n] = RefBin1(args, hist.pix[1], n)
    /\ RefWrapNeeded(hist.pix[1]) =>
         \A n, m \in 1..4 :
           FLt(FSub(Corners1(args, hist.pix[1])[n], Corners1(args, hist.pix[1])[m]),
               FDiv(pi, delta1(args)))
    /\ hist.res.path \in Paths =>
         \A d \in 1..Len(hist.res.dep) :
           \E n, m \in 1..4 :
             /\ Floor(RefBin1(args, hist.pix[1], n)) <= hist.res.dep[d].k[2]
             /\ hist.res.dep[d].k[2] <= Floor(RefBin1(args, hist.pix[1], m))

\* corners A and D above +pi/2, B and C below -pi/2: the pixel is deposited
\* in the last azimuthal bin alone
C28_Witness ==
  /\ hist.pix # <<>>
  /\ args.pos1Range = <<FNeg(pi), pi>>
  /\ hist.pix[1].pos[1][2] = Q(7, 2) /\ hist.pix[1].pos[2][2] = Q(-7, 2)
  /\ hist.pix[1].pos[3][2] = Q(-7, 2) /\ hist.pix[1].pos[4][2] = Q(7, 2)
  /\ hist.res.path \in Paths
  /\ \A d \in 1..Len(hist.res.dep) : hist.res.dep[d].k[2] = args.all_bins1 - 1
  /\ \E k \in Cells(args) : k[2] = args.all_bins1 - 1 /\ FGt(outCount[k], Zero)

\* the corners of the pixel relative to the first cell of its bounding box
RefLocal(a, p) ==
  [n \in 1..4 |->
     <<FSub(Corners0(a, p)[n],
            R(Floor(Min4(Corners0(a, p)[1], Corners0(a, p)[2],
                         Corners0(a, p)[3], Corners0(a, p)[4])))),
       FSub(Corners1(a, p)[n],
            R(Floor(Min4(Corners1(a, p)[1], Corners1(a, p)[2],
                         Corners1(a, p)[3], Corners1(a, p)[4]))))>>]

\* the cells of the bounding box that the iteration clips the pixel to:
\* those whose four is_inside entries, as the iteration loads them from the
\* scratch scr it found, add up to 1, 2 or 3
RefClipped(a, scr, res, g) ==
  {c \in res.rd :
     /\ <<c[1] + 1, c[2] + 1>> \in res.rd
     /\ CornerSum(a, ScratchStore(a, scr, res.wr, 1), res.wr, g, c[1], c[2]) \in {1, 2, 3}}

(***************************************************************************)
(* C29.  fullSplit2D, general path: in the four clipping passes of a cell  *)
(* neither polygon buffer ever holds more than 8 vertices, so that every   *)
(* write index is below 8, and the polygon handed to area_n has a size for *)
(* which area_n is defined (3 to 8).                                       *)
(***************************************************************************)
C29_ClipWithinCapacity ==
  [][(LoopStep /\ hist'.res.path = "general") =>
       \A c \in RefClipped(args, is_inside, hist'.res, hist'.g) :
         /\ \A n \in 1..4 : ClipSizes(RefLocal(args, hist'.pix[1]), c[1], c[2])[n] <= 8
         /\ ClipSizes(RefLocal(args, hist'.pix[1]), c[1], c[2])[4] \in 3..8]_vars

(***************************************************************************)
(* C30.  fullSplit2D: every index pair [i, j] at which an iteration stores *)
(* to or loads from is_inside lies within the dimensions the array was     *)
(* allocated with: 0 <= i < dim0 and 0 <= j < dim1.                        *)
(***************************************************************************)
C30_ScratchIndicesInRange ==
  /\ \A n \in 1..Len(hist.res.wr) :
       /\ hist.res.wr[n].at[1] \in 0..(dim0(args) - 1)
       /\ hist.res.wr[n].at[2] \in 0..(dim1(args) - 1)
  /\ \A c \in hist.res.rd :
       /\ c[1] \in 0..(dim0(args) - 1)
       /\ c[2] \in 0..(dim1(args) - 1)

====
